---- MODULE Spec2Model ----
(***************************************************************************)
(* Model of the Iroha node core: the RocksDB command executor over the     *)
(* world state view (WSV), the WSV restorer that replays the block log,    *)
(* and the round switching of the on-demand ordering initialisation.       *)
(***************************************************************************)
EXTENDS Integers, Sequences, FiniteSets, TLC

VARIABLES
    wsv,        \* the key-value store of the world state view
    last,       \* the last command handed to the executor and its result
    blocks,     \* the block log: blocks[h] is what is stored at height h
    ledger,     \* the persisted WSV ledger state: {} or {[height, top_hash]}
    rst,        \* the locals of WsvRestorerImpl::restoreWsv and its position
    handed,     \* heights of the blocks given to the mutable storage, in order
    ord,        \* OnDemandOrderingInit: the rounds passed to processRoundSwitch
    twin,       \* OnDemandOrderingInit of a second node
    yac,        \* the consensus gate: vote storage and delivered outcomes
    pts,        \* PendingTransactionStorage and the last answer it gave
    gate,       \* OnDemandOrderingGate: stop flag, lock, threads, calls made
    os,         \* OnDemandOrderingServiceImpl: proposal_map_ and current_round_
    rdb,        \* RocksDbTransaction: the store and the savepoints set on it
    uw          \* UnsignedWrapper objects and what the last call on them did

vars == <<wsv, last, blocks, ledger, rst, handed, ord, twin, yac, pts, gate, os, rdb, uw>>

(***************************************************************************)
(* Optional values: {} is "absent", {v} is "present with value v".         *)
(***************************************************************************)
Absent == {}
Some(v) == {v}
Has(o) == o # {}
Val(o) == CHOOSE v \in o : TRUE

(***************************************************************************)
(* The universe of ids the commands range over.                            *)
(***************************************************************************)
Domains == {"d", "e"}
AccountIds == {<<"admin", "d">>, <<"u", "d">>, <<"v", "e">>}
NoCreator == <<"", "">>
RoleNames == {"admin", "user", "r", "maker"}
PubKeys == {"k1", "K1", "k2"}
AssetIds == {<<"coin", "d">>}
DetailKeys == {"key"}
DetailValues == {"x", "y"}
Writers == AccountIds \cup {<<"genesis", "">>}
PeerKeys == {"p1", "p2", "p3"}
SettingKeys == {"max_description_size"}

AccountName(id) == id[1]
AccountDomain(id) == id[2]

\* boost::algorithm::to_lower on a public key
ToLower(k) == IF k = "K1" THEN "k1" ELSE k

(***************************************************************************)
(* Permissions.                                                            *)
(***************************************************************************)
GrantablePerms == {"kAddMySignatory", "kRemoveMySignatory", "kSetMyQuorum",
                   "kSetMyAccountDetail", "kTransferMyAssets"}

RolePerms == {"kRoot", "kAddPeer", "kRemovePeer", "kAddSignatory",
              "kRemoveSignatory", "kSetQuorum", "kCreateAccount",
              "kCreateAsset", "kCreateDomain", "kCreateRole", "kAppendRole",
              "kDetachRole", "kAddAssetQty", "kAddDomainAssetQty",
              "kSubtractAssetQty", "kSubtractDomainAssetQty", "kTransfer",
              "kReceive", "kSetDetail", "kGetMyAccDetail"}
             \cup GrantablePerms

\* RolePermissionSet::isSet: Root stands for every permission
IsSet(perms, p) == p \in perms \/ "kRoot" \in perms

\* RolePermissionSet::isSubsetOf
IsSubsetOf(perms, of) == \A p \in perms : IsSet(of, p)

\* permissions::permissionFor(Grantable): the role permission needed to grant
permissionFor(g) == g

(***************************************************************************)
(* Amounts: an unsigned mantissa with a precision.  An operation whose     *)
(* result is negative, too large, or of a finer precision than the left    *)
(* operand gives the invalid amount, whose string starts with 'N'.         *)
(***************************************************************************)
MaxMantissa == 3

RECURSIVE Pow10(_)
Pow10(n) == IF n = 0 THEN 1 ELSE 10 * Pow10(n - 1)

Amount(v, p) == [valid |-> TRUE, val |-> v, prec |-> p]
NaN(p) == [valid |-> FALSE, val |-> 0, prec |-> p]
ZeroAmount(p) == Amount(0, p)

Scaled(other, p) == other.val * Pow10(p - other.prec)

AmountAdd(x, y) ==
    IF ~x.valid \/ ~y.valid \/ y.prec > x.prec THEN NaN(x.prec)
    ELSE IF x.val + Scaled(y, x.prec) > MaxMantissa THEN NaN(x.prec)
    ELSE Amount(x.val + Scaled(y, x.prec), x.prec)

AmountSub(x, y) ==
    IF ~x.valid \/ ~y.valid \/ y.prec > x.prec THEN NaN(x.prec)
    ELSE IF Scaled(y, x.prec) > x.val THEN NaN(x.prec)
    ELSE Amount(x.val - Scaled(y, x.prec), x.prec)

\* toStringRepr()[0] == 'N'
StartsWithN(x) == ~x.valid

(***************************************************************************)
(* The store.  One map per key template of the WSV.                        *)
(***************************************************************************)
EmptyWsv ==
    [role          |-> [r \in RoleNames |-> Absent],
     domain        |-> [d \in Domains |-> Absent],
     domains_count |-> Absent,
     quorum        |-> [a \in AccountIds |-> Absent],
     signatory     |-> [a \in AccountIds |-> {}],
     account_role  |-> [a \in AccountIds |-> {}],
     asset         |-> [s \in AssetIds |-> Absent],
     account_asset |-> [k \in AccountIds \X AssetIds |-> Absent],
     asset_size    |-> [a \in AccountIds |-> Absent],
     detail        |-> [k \in AccountIds \X Writers \X DetailKeys |-> Absent],
     details_count |-> [a \in AccountIds |-> Absent],
     peer_address  |-> [p \in PeerKeys |-> Absent],
     peer_tls      |-> [p \in PeerKeys |-> Absent],
     peers_count   |-> Absent,
     grantable     |-> [k \in AccountIds \X AccountIds |-> Absent],
     setting       |-> [s \in SettingKeys |-> Absent]]

\* a handler's result: the error code ("OK" for success) and the store as the
\* handler left it (writes made before an error are still in it)
Ok(db) == [code |-> "OK", db |-> db]
Err(code, db) == [code |-> code, db |-> db]

\* forAccount: an account exists when its quorum entry does
AccountExists(db, a) == a \in AccountIds /\ Has(db.quorum[a])

\* accountPermissions: the union of the permissions of the account's roles
HasRoles(db, a) == a \in AccountIds /\ db.account_role[a] # {}
accountPermissions(db, a) ==
    UNION {IF Has(db.role[r]) THEN Val(db.role[r]) ELSE {} :
           r \in db.account_role[a]}

\* checkPermissions(permissions, to_check)
checkPermissions(perms, p) == IsSet(perms, p)

\* checkPermissions(domain, creator_domain, permissions, all, domain_only)
checkDomainPermissions(dom, creator_dom, perms, all, domain_only) ==
    IsSet(perms, all) \/ (dom = creator_dom /\ IsSet(perms, domain_only))

\* checkPermissions(permissions, granted, role_perm, grantable_perm)
checkRoleOrGrantable(perms, granted, p, g) == IsSet(perms, p) \/ g \in granted

\* checkGrantablePermissions(permissions, granted, grantable_perm)
checkGrantablePermissions(perms, granted, g) ==
    IsSet(perms, "kRoot") \/ g \in granted

\* forGrantablePermissions<kGet, kCanExist>(first, second): the stored set
GrantedSet(db, first, second) ==
    IF first \in AccountIds /\ second \in AccountIds
       /\ Has(db.grantable[<<first, second>>])
    THEN Val(db.grantable[<<first, second>>])
    ELSE {}

(***************************************************************************)
(* Command handlers.  Each takes the store, the command, the creator, the  *)
(* do_validation flag and the creator's role permissions, and returns the  *)
(* error code with the store as the handler left it.                       *)
(***************************************************************************)

AddPeerCountKept(db, cmd, creator, do_validation, perms) ==
    IF do_validation /\ ~checkPermissions(perms, "kAddPeer")
    THEN Err("kNoPermissions", db)
    ELSE IF Has(db.peer_address[cmd.pubkey])
    THEN Err("forPeerAddress", db)
    ELSE Ok([db EXCEPT !.peer_address[cmd.pubkey] = Some(cmd.address)])

\* operator()(AddPeer)
AddPeer(db, cmd, creator, do_validation, perms) ==
    IF do_validation /\ ~checkPermissions(perms, "kAddPeer")
    THEN Err("kNoPermissions", db)
    ELSE IF Has(db.peer_address[cmd.pubkey])
    THEN Err("forPeerAddress", db)
    ELSE
      LET count == IF Has(db.peers_count) THEN Val(db.peers_count) ELSE 0
          db1 == [db EXCEPT !.peers_count = Some(count + 1)]
          db2 == [db1 EXCEPT !.peer_address[cmd.pubkey] = Some(cmd.address)]
          db3 == IF Has(cmd.tls)
                 THEN [db2 EXCEPT !.peer_tls[cmd.pubkey] = cmd.tls]
                 ELSE db2
      IN Ok(db3)

RemovePeerNoLastPeerCheck(db, cmd, creator, do_validation, perms) ==
    IF cmd.pubkey = "" THEN Err("kPublicKeyIsEmpty", db)
    ELSE IF do_validation /\ ~checkPermissions(perms, "kRemovePeer")
    THEN Err("kNoPermissions", db)
    ELSE IF ~Has(db.peer_address[cmd.pubkey])
    THEN Err("forPeerAddress", db)
    ELSE IF ~Has(db.peers_count)
    THEN Err("forPeersCount", db)
    ELSE
      LET db1 == [db EXCEPT !.peers_count = Some(Val(db.peers_count) - 1)]
          db2 == [db1 EXCEPT !.peer_address[cmd.pubkey] = Absent]
          db3 == [db2 EXCEPT !.peer_tls[cmd.pubkey] = Absent]
      IN Ok(db3)

\* operator()(RemovePeer)
RemovePeer(db, cmd, creator, do_validation, perms) ==
    IF cmd.pubkey = "" THEN Err("kPublicKeyIsEmpty", db)
    ELSE IF do_validation /\ ~checkPermissions(perms, "kRemovePeer")
    THEN Err("kNoPermissions", db)
    ELSE IF ~Has(db.peer_address[cmd.pubkey])
    THEN Err("forPeerAddress", db)
    ELSE IF ~Has(db.peers_count)
    THEN Err("forPeersCount", db)
    ELSE IF Val(db.peers_count) = 1
    THEN Err("kPeersCountIsNotEnough", db)
    ELSE
      LET db1 == [db EXCEPT !.peers_count = Some(Val(db.peers_count) - 1)]
          db2 == [db1 EXCEPT !.peer_address[cmd.pubkey] = Absent]
          db3 == [db2 EXCEPT !.peer_tls[cmd.pubkey] = Absent]
      IN Ok(db3)

CreateAccountKeepsCase(db, cmd, creator, do_validation, perms) ==
    LET account == <<cmd.account_name, cmd.domain_id>> IN
    IF do_validation /\ ~checkPermissions(perms, "kCreateAccount")
    THEN Err("kNoPermissions", db)
    ELSE IF ~Has(db.domain[cmd.domain_id])
    THEN Err("forDomain", db)
    ELSE IF ~Has(db.role[Val(db.domain[cmd.domain_id])])
    THEN Err("forRole", db)
    ELSE IF do_validation
            /\ ~IsSubsetOf(Val(db.role[Val(db.domain[cmd.domain_id])]), perms)
    THEN Err("kNoPermissions", db)
    ELSE IF do_validation /\ Has(db.quorum[account])
    THEN Err("forAccount", db)
    ELSE Ok([db EXCEPT
               !.account_role[account] = @ \cup {Val(db.domain[cmd.domain_id])},
               !.signatory[account] = @ \cup {cmd.pubkey},
               !.quorum[account] = Some(1)])

\* operator()(CreateAccount)
CreateAccount(db, cmd, creator, do_validation, perms) ==
    LET account == <<cmd.account_name, cmd.domain_id>>
        pubkey == ToLower(cmd.pubkey)
    IN
    IF do_validation /\ ~checkPermissions(perms, "kCreateAccount")
    THEN Err("kNoPermissions", db)
    ELSE IF ~Has(db.domain[cmd.domain_id])
    THEN Err("forDomain", db)
    ELSE
      LET default_role == Val(db.domain[cmd.domain_id]) IN
      IF ~Has(db.role[default_role])
      THEN Err("forRole", db)
      ELSE IF do_validation /\ ~IsSubsetOf(Val(db.role[default_role]), perms)
      THEN Err("kNoPermissions", db)
      ELSE
        LET db1 == [db EXCEPT !.account_role[account] = @ \cup {default_role}]
        IN
        IF do_validation /\ Has(db1.quorum[account])
        THEN Err("forAccount", db1)
        ELSE
          LET db2 == [db1 EXCEPT !.signatory[account] = @ \cup {pubkey}]
              db3 == [db2 EXCEPT !.quorum[account] = Some(1)]
          IN Ok(db3)

\* operator()(AddSignatory)
AddSignatory(db, cmd, creator, do_validation, perms) ==
    LET granted == GrantedSet(db, creator, cmd.account_id)
        allowed == IF creator = cmd.account_id
                   THEN checkPermissions(perms, "kAddSignatory")
                   ELSE checkGrantablePermissions(perms, granted,
                                                  "kAddMySignatory")
    IN
    IF do_validation /\ ~allowed
    THEN Err("kNoPermissions", db)
    ELSE IF ~AccountExists(db, cmd.account_id)
    THEN Err("forAccount", db)
    ELSE IF cmd.pubkey \in db.signatory[cmd.account_id]
    THEN Err("forSignatory", db)
    ELSE Ok([db EXCEPT !.signatory[cmd.account_id] = @ \cup {cmd.pubkey}])

\* operator()(RemoveSignatory)
RemoveSignatory(db, cmd, creator, do_validation, perms) ==
    LET account == cmd.account_id
        granted == GrantedSet(db, creator, account)
        allowed == IF creator = account
                   THEN checkPermissions(perms, "kRemoveSignatory")
                   ELSE checkGrantablePermissions(perms, granted,
                                                  "kRemoveMySignatory")
        counter == Cardinality(db.signatory[account])
        removed == [db EXCEPT !.signatory[account] = @ \ {cmd.pubkey}]
    IN
    IF ~do_validation THEN Ok(removed)
    ELSE IF ~Has(db.quorum[account]) THEN Err("kNoAccount", db)
    ELSE IF ~allowed THEN Err("kNoPermissions", db)
    ELSE IF cmd.pubkey \notin db.signatory[account]
    THEN Err("kNoSignatory", db)
    ELSE IF counter <= Val(db.quorum[account])
    THEN Err("kCountNotEnough", db)
    ELSE Ok(removed)

\* operator()(SetQuorum)
SetQuorum(db, cmd, creator, do_validation, perms) ==
    LET account == cmd.account_id
        granted == GrantedSet(db, creator, account)
        counter == Cardinality(db.signatory[account])
    IN
    IF do_validation /\ ~AccountExists(db, account)
    THEN Err("forAccount", db)
    ELSE IF do_validation
            /\ ~checkRoleOrGrantable(perms, granted, "kSetQuorum",
                                     "kSetMyQuorum")
    THEN Err("kNoPermissions", db)
    ELSE IF cmd.new_quorum > counter
    THEN Err("kCountNotEnough", db)
    ELSE Ok([db EXCEPT !.quorum[account] = Some(cmd.new_quorum)])

\* operator()(AddAssetQuantity)
AddAssetQuantity(db, cmd, creator, do_validation, perms) ==
    IF do_validation
       /\ ~checkDomainPermissions(cmd.asset_id[2], AccountDomain(creator),
                                  perms, "kAddAssetQty", "kAddDomainAssetQty")
    THEN Err("kNoPermissions", db)
    ELSE IF ~Has(db.asset[cmd.asset_id])
    THEN Err("forAsset", db)
    ELSE
      LET key == <<creator, cmd.asset_id>>
          size == IF Has(db.asset_size[creator])
                  THEN Val(db.asset_size[creator]) ELSE 0
          balance == db.account_asset[key]
          account_asset_size == IF Has(balance) THEN size ELSE size + 1
          start == IF Has(balance) THEN Val(balance)
                   ELSE ZeroAmount(Val(db.asset[cmd.asset_id]))
          result == AmountAdd(start, cmd.amount)
      IN
      IF StartsWithN(result)
      THEN Err("kInvalidAssetAmount", db)
      ELSE
        LET db1 == [db EXCEPT !.account_asset[key] = Some(result)]
            db2 == [db1 EXCEPT !.asset_size[creator] =
                                   Some(account_asset_size)]
        IN Ok(db2)

SubtractAssetQuantityNoSignCheck(db, cmd, creator, do_validation, perms) ==
    IF do_validation
       /\ ~checkDomainPermissions(cmd.asset_id[2], AccountDomain(creator),
                                  perms, "kSubtractAssetQty",
                                  "kSubtractDomainAssetQty")
    THEN Err("kNoPermissions", db)
    ELSE IF ~Has(db.asset[cmd.asset_id])
    THEN Err("forAsset", db)
    ELSE IF Val(db.asset[cmd.asset_id]) < cmd.amount.prec
    THEN Err("3", db)
    ELSE
      LET key == <<creator, cmd.asset_id>>
          balance == db.account_asset[key]
          start == IF Has(balance) THEN Val(balance)
                   ELSE ZeroAmount(Val(db.asset[cmd.asset_id]))
          result == AmountSub(start, cmd.amount)
      IN Ok([db EXCEPT !.account_asset[key] = Some(result)])

SubtractAssetQuantityNoPrecisionCheck(db, cmd, creator, do_validation, perms) ==
    LET key == <<creator, cmd.asset_id>>
        balance == db.account_asset[key]
    IN
    IF do_validation
       /\ ~checkDomainPermissions(cmd.asset_id[2], AccountDomain(creator),
                                  perms, "kSubtractAssetQty",
                                  "kSubtractDomainAssetQty")
    THEN Err("kNoPermissions", db)
    ELSE IF ~Has(db.asset[cmd.asset_id])
    THEN Err("forAsset", db)
    ELSE IF StartsWithN(AmountSub(
                IF Has(balance) THEN Val(balance)
                ELSE ZeroAmount(Val(db.asset[cmd.asset_id])),
                cmd.amount))
    THEN Err("kInvalidAmount", db)
    ELSE Ok([db EXCEPT !.account_asset[key] =
                Some(AmountSub(
                       IF Has(balance) THEN Val(balance)
                       ELSE ZeroAmount(Val(db.asset[cmd.asset_id])),
                       cmd.amount))])

\* operator()(SubtractAssetQuantity)
SubtractAssetQuantity(db, cmd, creator, do_validation, perms) ==
    IF do_validation
       /\ ~checkDomainPermissions(cmd.asset_id[2], AccountDomain(creator),
                                  perms, "kSubtractAssetQty",
                                  "kSubtractDomainAssetQty")
    THEN Err("kNoPermissions", db)
    ELSE IF ~Has(db.asset[cmd.asset_id])
    THEN Err("forAsset", db)
    ELSE IF Val(db.asset[cmd.asset_id]) < cmd.amount.prec
    THEN Err("3", db)
    ELSE
      LET key == <<creator, cmd.asset_id>>
          balance == db.account_asset[key]
          start == IF Has(balance) THEN Val(balance)
                   ELSE ZeroAmount(Val(db.asset[cmd.asset_id]))
          result == AmountSub(start, cmd.amount)
      IN
      IF StartsWithN(result)
      THEN Err("kInvalidAmount", db)
      ELSE Ok([db EXCEPT !.account_asset[key] = Some(result)])

\* RocksDbCommon::decode of a stored unsigned number
SettingValues == {"0", "1", "2"}
decode(buffer) == CASE buffer = "0" -> 0
                    [] buffer = "1" -> 1
                    [] buffer = "2" -> 2

TransferAssetValidationRejectsFullSize(db, cmd, creator, perms) ==
    LET src == cmd.src_account_id
        dst == cmd.dest_account_id
        granted == GrantedSet(db, src, creator)
        max_size == db.setting["max_description_size"]
    IN
    IF ~HasRoles(db, dst) THEN "accountPermissions"
    ELSE IF ~IsSet(accountPermissions(db, dst), "kReceive")
    THEN "kNoPermissions"
    ELSE IF src # creator
            /\ ~checkRoleOrGrantable(perms, granted, "kTransfer",
                                     "kTransferMyAssets")
    THEN "kNoPermissions"
    ELSE IF src = creator /\ ~checkPermissions(perms, "kTransfer")
    THEN "kNoPermissions"
    ELSE IF ~Has(db.asset[cmd.asset_id]) THEN "forAsset"
    ELSE IF Has(max_size) /\ cmd.description_size >= decode(Val(max_size))
    THEN "kInvalidFieldSize"
    ELSE "OK"

\* operator()(TransferAsset), the checks made under do_validation:
\* "OK" or the error code
TransferAssetValidation(db, cmd, creator, perms) ==
    LET src == cmd.src_account_id
        dst == cmd.dest_account_id
        granted == GrantedSet(db, src, creator)
        max_size == db.setting["max_description_size"]
    IN
    IF ~HasRoles(db, dst) THEN "accountPermissions"
    ELSE IF ~IsSet(accountPermissions(db, dst), "kReceive")
    THEN "kNoPermissions"
    ELSE IF src # creator
            /\ ~checkRoleOrGrantable(perms, granted, "kTransfer",
                                     "kTransferMyAssets")
    THEN "kNoPermissions"
    ELSE IF src = creator /\ ~checkPermissions(perms, "kTransfer")
    THEN "kNoPermissions"
    ELSE IF ~Has(db.asset[cmd.asset_id]) THEN "forAsset"
    ELSE IF Has(max_size) /\ cmd.description_size > decode(Val(max_size))
    THEN "kInvalidFieldSize"
    ELSE "OK"

\* operator()(TransferAsset)
TransferAsset(db, cmd, creator, do_validation, perms) ==
    LET src == cmd.src_account_id
        dst == cmd.dest_account_id
        checked == IF do_validation
                   THEN TransferAssetValidation(db, cmd, creator, perms)
                   ELSE "OK"
    IN
    IF ~AccountExists(db, dst) THEN Err("forAccount", db)
    ELSE IF ~AccountExists(db, src) THEN Err("forAccount", db)
    ELSE IF checked # "OK" THEN Err(checked, db)
    ELSE IF ~Has(db.account_asset[<<src, cmd.asset_id>>])
    THEN Err("forAccountAsset", db)
    ELSE
      LET source_balance ==
              AmountSub(Val(db.account_asset[<<src, cmd.asset_id>>]),
                        cmd.amount)
          size == IF Has(db.asset_size[dst])
                  THEN Val(db.asset_size[dst]) ELSE 0
          opt_amount == db.account_asset[<<dst, cmd.asset_id>>]
          account_asset_size == IF Has(opt_amount) THEN size ELSE size + 1
          start == IF Has(opt_amount) THEN Val(opt_amount)
                   ELSE ZeroAmount(source_balance.prec)
          destination_balance == AmountAdd(start, cmd.amount)
      IN
      IF StartsWithN(source_balance)
      THEN Err("kNotEnoughAssets", db)
      ELSE IF StartsWithN(destination_balance)
      THEN Err("kIncorrectBalance", db)
      ELSE
        LET db1 == [db EXCEPT !.account_asset[<<src, cmd.asset_id>>] =
                                   Some(source_balance)]
            db2 == [db1 EXCEPT !.account_asset[<<dst, cmd.asset_id>>] =
                                   Some(destination_balance)]
            db3 == [db2 EXCEPT !.asset_size[dst] = Some(account_asset_size)]
        IN Ok(db3)

AppendRoleNoSubsetCheck(db, cmd, creator, do_validation, perms) ==
    IF do_validation /\ ~checkPermissions(perms, "kAppendRole")
    THEN Err("kNoPermissions", db)
    ELSE IF do_validation /\ ~Has(db.role[cmd.role_name])
    THEN Err("forRole", db)
    ELSE IF ~AccountExists(db, cmd.account_id)
    THEN Err("forAccount", db)
    ELSE IF cmd.role_name \in db.account_role[cmd.account_id]
    THEN Err("forAccountRole", db)
    ELSE Ok([db EXCEPT !.account_role[cmd.account_id] =
                           @ \cup {cmd.role_name}])

\* operator()(AppendRole)
AppendRole(db, cmd, creator, do_validation, perms) ==
    IF do_validation /\ ~checkPermissions(perms, "kAppendRole")
    THEN Err("kNoPermissions", db)
    ELSE IF do_validation /\ ~Has(db.role[cmd.role_name])
    THEN Err("forRole", db)
    ELSE IF do_validation /\ ~IsSubsetOf(Val(db.role[cmd.role_name]), perms)
    THEN Err("kNoPermissions", db)
    ELSE IF ~AccountExists(db, cmd.account_id)
    THEN Err("forAccount", db)
    ELSE IF cmd.role_name \in db.account_role[cmd.account_id]
    THEN Err("forAccountRole", db)
    ELSE Ok([db EXCEPT !.account_role[cmd.account_id] =
                           @ \cup {cmd.role_name}])

\* operator()(CallEngine)
CallEngine(db, cmd, creator, do_validation, perms) ==
    Err("kNoImplementation", db)

SetAccountDetailReplayedAsGenesis(db, cmd, creator, do_validation, perms) ==
    LET writer == IF do_validation THEN creator ELSE <<"genesis", "">>
        key == <<cmd.account_id, writer, cmd.key>>
    IN
    IF do_validation /\ ~AccountExists(db, cmd.account_id)
    THEN Err("forAccount", db)
    ELSE Ok([db EXCEPT !.detail[key] = Some(cmd.value)])

CompareAndSetAccountDetailNoCheckEmpty(db, cmd, creator, do_validation, perms) ==
    LET account == cmd.account_id
        granted == GrantedSet(db, creator, account)
        creator_id == IF creator # NoCreator THEN creator
                      ELSE <<"genesis", "">>
        key == <<account, creator_id, cmd.key>>
        opt_detail == db.detail[key]
        count == IF Has(db.details_count[account])
                 THEN Val(db.details_count[account]) ELSE 0
    IN
    IF do_validation
       /\ ~checkRoleOrGrantable(perms, granted, "kGetMyAccDetail",
                                "kSetMyAccountDetail")
    THEN Err("kNoPermissions", db)
    ELSE IF ~AccountExists(db, account)
    THEN Err("forAccount", db)
    ELSE IF Has(opt_detail)
            /\ (~Has(cmd.old_value) \/ Val(opt_detail) # Val(cmd.old_value))
    THEN Err("kIncorrectOldValue", db)
    ELSE IF Has(opt_detail)
    THEN Ok([db EXCEPT !.detail[key] = Some(cmd.value)])
    ELSE Ok([db EXCEPT !.detail[key] = Some(cmd.value),
                       !.details_count[account] = Some(count + 1)])

CompareAndSetAccountDetailCountsWrites(db, cmd, creator, do_validation, perms) ==
    LET account == cmd.account_id
        granted == GrantedSet(db, creator, account)
        creator_id == IF creator # NoCreator THEN creator
                      ELSE <<"genesis", "">>
        key == <<account, creator_id, cmd.key>>
        opt_detail == db.detail[key]
        count == IF Has(db.details_count[account])
                 THEN Val(db.details_count[account]) ELSE 0
    IN
    IF do_validation
       /\ ~checkRoleOrGrantable(perms, granted, "kGetMyAccDetail",
                                "kSetMyAccountDetail")
    THEN Err("kNoPermissions", db)
    ELSE IF ~AccountExists(db, account)
    THEN Err("forAccount", db)
    ELSE IF (Has(opt_detail) /\ Has(cmd.old_value)
                /\ Val(opt_detail) = Val(cmd.old_value))
            \/ (~Has(opt_detail)
                /\ (~cmd.check_empty \/ ~Has(cmd.old_value)))
    THEN Ok([db EXCEPT !.detail[key] = Some(cmd.value),
                       !.details_count[account] = Some(count + 1)])
    ELSE Err("kIncorrectOldValue", db)

\* operator()(CompareAndSetAccountDetail)
CompareAndSetAccountDetail(db, cmd, creator, do_validation, perms) ==
    LET account == cmd.account_id
        granted == GrantedSet(db, creator, account)
        creator_id == IF creator # NoCreator THEN creator
                      ELSE <<"genesis", "">>
        key == <<account, creator_id, cmd.key>>
    IN
    IF do_validation
       /\ ~checkRoleOrGrantable(perms, granted, "kGetMyAccDetail",
                                "kSetMyAccountDetail")
    THEN Err("kNoPermissions", db)
    ELSE IF ~AccountExists(db, account)
    THEN Err("forAccount", db)
    ELSE
      LET opt_detail == db.detail[key]
          eq == IF Has(cmd.old_value) /\ Has(opt_detail)
                THEN Val(opt_detail) = Val(cmd.old_value)
                ELSE FALSE
          same == IF cmd.check_empty
                  THEN ~Has(cmd.old_value) /\ ~Has(opt_detail)
                  ELSE ~Has(opt_detail)
      IN
      IF eq \/ same
      THEN
        LET db1 == [db EXCEPT !.detail[key] = Some(cmd.value)]
            count == IF Has(db1.details_count[account])
                     THEN Val(db1.details_count[account]) ELSE 0
        IN IF ~Has(opt_detail)
           THEN Ok([db1 EXCEPT !.details_count[account] = Some(count + 1)])
           ELSE Ok(db1)
      ELSE Err("kIncorrectOldValue", db)

\* operator()(CreateAsset)
CreateAsset(db, cmd, creator, do_validation, perms) ==
    LET asset == <<cmd.asset_name, cmd.domain_id>> IN
    IF do_validation /\ ~checkPermissions(perms, "kCreateAsset")
    THEN Err("kNoPermissions", db)
    ELSE IF do_validation /\ Has(db.asset[asset])
    THEN Err("forAsset", db)
    ELSE IF do_validation /\ ~Has(db.domain[cmd.domain_id])
    THEN Err("forDomain", db)
    ELSE Ok([db EXCEPT !.asset[asset] = Some(cmd.precision)])

\* operator()(CreateDomain)
CreateDomain(db, cmd, creator, do_validation, perms) ==
    IF do_validation /\ ~checkPermissions(perms, "kCreateDomain")
    THEN Err("kNoPermissions", db)
    ELSE IF do_validation /\ Has(db.domain[cmd.domain_id])
    THEN Err("forDomain", db)
    ELSE IF do_validation /\ ~Has(db.role[cmd.user_default_role])
    THEN Err("forRole", db)
    ELSE
      LET domains_count == IF Has(db.domains_count)
                           THEN Val(db.domains_count) ELSE 0
          db1 == [db EXCEPT !.domains_count = Some(domains_count + 1)]
      IN Ok([db1 EXCEPT !.domain[cmd.domain_id] =
                            Some(cmd.user_default_role)])

\* operator()(CreateRole)
CreateRole(db, cmd, creator, do_validation, perms) ==
    LET role_permissions == IF "kRoot" \in cmd.role_permissions
                            THEN RolePerms
                            ELSE cmd.role_permissions
    IN
    IF do_validation /\ ~checkPermissions(perms, "kCreateRole")
    THEN Err("kNoPermissions", db)
    ELSE IF do_validation /\ ~IsSubsetOf(role_permissions, perms)
    THEN Err("kNoPermissions", db)
    ELSE IF Has(db.role[cmd.role_name])
    THEN Err("kRoleAlreadyExists", db)
    ELSE Ok([db EXCEPT !.role[cmd.role_name] = Some(role_permissions)])

\* operator()(DetachRole)
DetachRole(db, cmd, creator, do_validation, perms) ==
    IF do_validation /\ ~checkPermissions(perms, "kDetachRole")
    THEN Err("kNoPermissions", db)
    ELSE IF ~Has(db.role[cmd.role_name])
    THEN Err("forRole", db)
    ELSE IF do_validation
            /\ cmd.role_name \notin db.account_role[cmd.account_id]
    THEN Err("forAccountRole", db)
    ELSE Ok([db EXCEPT !.account_role[cmd.account_id] =
                           @ \ {cmd.role_name}])

GrantPermissionNoAlreadySetCheck(db, cmd, creator, do_validation, perms) ==
    LET key == <<cmd.account_id, creator>>
        granted == GrantedSet(db, cmd.account_id, creator)
    IN
    IF do_validation
       /\ ~checkPermissions(perms, permissionFor(cmd.permission_name))
    THEN Err("kNoPermissions", db)
    ELSE IF do_validation /\ ~AccountExists(db, cmd.account_id)
    THEN Err("forAccount", db)
    ELSE Ok([db EXCEPT !.grantable[key] =
                           Some(granted \cup {cmd.permission_name})])

\* operator()(GrantPermission)
GrantPermission(db, cmd, creator, do_validation, perms) ==
    LET key == <<cmd.account_id, creator>>
        granted == GrantedSet(db, cmd.account_id, creator)
    IN
    IF do_validation
       /\ ~checkPermissions(perms, permissionFor(cmd.permission_name))
    THEN Err("kNoPermissions", db)
    ELSE IF do_validation /\ ~AccountExists(db, cmd.account_id)
    THEN Err("forAccount", db)
    ELSE IF cmd.permission_name \in granted
    THEN Err("kPermissionIsAlreadySet", db)
    ELSE Ok([db EXCEPT !.grantable[key] =
                           Some(granted \cup {cmd.permission_name})])

\* operator()(RevokePermission)
RevokePermission(db, cmd, creator, do_validation, perms) ==
    LET key == <<cmd.account_id, creator>>
        granted == GrantedSet(db, cmd.account_id, creator)
    IN
    IF do_validation
       /\ ~checkPermissions(perms, permissionFor(cmd.permission_name))
    THEN Err("kNoPermissions", db)
    ELSE IF do_validation /\ ~AccountExists(db, cmd.account_id)
    THEN Err("forAccount", db)
    ELSE IF cmd.permission_name \notin granted
    THEN Err("kNoPermissions", db)
    ELSE Ok([db EXCEPT !.grantable[key] =
                           Some(granted \ {cmd.permission_name})])

\* operator()(SetAccountDetail)
SetAccountDetail(db, cmd, creator, do_validation, perms) ==
    LET account == cmd.account_id
        granted == GrantedSet(db, creator, account)
        writer == IF creator # NoCreator THEN creator ELSE <<"genesis", "">>
        key == <<account, writer, cmd.key>>
    IN
    IF do_validation /\ account # creator
       /\ ~checkRoleOrGrantable(perms, granted, "kSetDetail",
                                "kSetMyAccountDetail")
    THEN Err("kNoPermissions", db)
    ELSE IF do_validation /\ ~AccountExists(db, account)
    THEN Err("forAccount", db)
    ELSE
      LET opt_detail == db.detail[key]
          db1 == [db EXCEPT !.detail[key] = Some(cmd.value)]
          count == IF Has(db1.details_count[account])
                   THEN Val(db1.details_count[account]) ELSE 0
      IN IF ~Has(opt_detail)
         THEN Ok([db1 EXCEPT !.details_count[account] = Some(count + 1)])
         ELSE Ok(db1)

\* operator()(SetSettingValue)
SetSettingValue(db, cmd, creator, do_validation, perms) ==
    Ok([db EXCEPT !.setting[cmd.key] = Some(cmd.value)])

(***************************************************************************)
(* RocksDbCommandExecutor::execute: read the creator's permissions when    *)
(* validating, then run the command's handler.                             *)
(***************************************************************************)
Dispatch(db, cmd, creator, do_validation, perms) ==
    CASE cmd.type = "AddAssetQuantity" ->
           AddAssetQuantity(db, cmd, creator, do_validation, perms)
      [] cmd.type = "AddPeer" ->
           AddPeer(db, cmd, creator, do_validation, perms)
      [] cmd.type = "AddSignatory" ->
           AddSignatory(db, cmd, creator, do_validation, perms)
      [] cmd.type = "AppendRole" ->
           AppendRole(db, cmd, creator, do_validation, perms)
      [] cmd.type = "CallEngine" ->
           CallEngine(db, cmd, creator, do_validation, perms)
      [] cmd.type = "CompareAndSetAccountDetail" ->
           CompareAndSetAccountDetail(db, cmd, creator, do_validation, perms)
      [] cmd.type = "CreateAccount" ->
           CreateAccount(db, cmd, creator, do_validation, perms)
      [] cmd.type = "CreateAsset" ->
           CreateAsset(db, cmd, creator, do_validation, perms)
      [] cmd.type = "CreateDomain" ->
           CreateDomain(db, cmd, creator, do_validation, perms)
      [] cmd.type = "CreateRole" ->
           CreateRole(db, cmd, creator, do_validation, perms)
      [] cmd.type = "DetachRole" ->
           DetachRole(db, cmd, creator, do_validation, perms)
      [] cmd.type = "GrantPermission" ->
           GrantPermission(db, cmd, creator, do_validation, perms)
      [] cmd.type = "RemovePeer" ->
           RemovePeer(db, cmd, creator, do_validation, perms)
      [] cmd.type = "RemoveSignatory" ->
           RemoveSignatory(db, cmd, creator, do_validation, perms)
      [] cmd.type = "RevokePermission" ->
           RevokePermission(db, cmd, creator, do_validation, perms)
      [] cmd.type = "SetAccountDetail" ->
           SetAccountDetail(db, cmd, creator, do_validation, perms)
      [] cmd.type = "SetQuorum" ->
           SetQuorum(db, cmd, creator, do_validation, perms)
      [] cmd.type = "SubtractAssetQuantity" ->
           SubtractAssetQuantity(db, cmd, creator, do_validation, perms)
      [] cmd.type = "TransferAsset" ->
           TransferAsset(db, cmd, creator, do_validation, perms)
      [] cmd.type = "SetSettingValue" ->
           SetSettingValue(db, cmd, creator, do_validation, perms)

execute(db, cmd, creator, do_validation) ==
    IF do_validation /\ ~HasRoles(db, creator)
    THEN Err("accountPermissions", db)
    ELSE Dispatch(db, cmd, creator, do_validation,
                  IF do_validation THEN accountPermissions(db, creator)
                  ELSE {})

\* the caller's savepoint: the writes of a failed command are rolled back
Commit(db, result) == IF result.code = "OK" THEN result.db ELSE db

(***************************************************************************)
(* The genesis block: its commands are executed without validation on the  *)
(* empty store.                                                            *)
(***************************************************************************)
Admin == <<"admin", "d">>
UserU == <<"u", "d">>
UserV == <<"v", "e">>
Coin == <<"coin", "d">>

UserPerms == {"kReceive", "kTransfer", "kAddSignatory", "kRemoveSignatory",
              "kSetQuorum", "kSetMyQuorum", "kAddMySignatory",
              "kTransferMyAssets", "kSetMyAccountDetail",
              "kSubtractDomainAssetQty", "kAddDomainAssetQty"}

GenesisCommands ==
    << [type |-> "CreateRole", role_name |-> "admin",
        role_permissions |-> {"kRoot"}],
       [type |-> "CreateRole", role_name |-> "user",
        role_permissions |-> UserPerms],
       [type |-> "CreateDomain", domain_id |-> "d",
        user_default_role |-> "user"],
       [type |-> "CreateAccount", account_name |-> "admin",
        domain_id |-> "d", pubkey |-> "k1"],
       [type |-> "AppendRole", account_id |-> Admin, role_name |-> "admin"],
       [type |-> "CreateAccount", account_name |-> "u",
        domain_id |-> "d", pubkey |-> "k2"],
       [type |-> "CreateAsset", asset_name |-> "coin", domain_id |-> "d",
        precision |-> 1],
       [type |-> "CreateDomain", domain_id |-> "e",
        user_default_role |-> "user"] >>

\* the commands of a block applied in order without validation
RECURSIVE ReplayBy(_, _, _)
ReplayBy(db, cmds, creator) ==
    IF cmds = << >> THEN db
    ELSE ReplayBy(Commit(db, execute(db, Head(cmds), creator, FALSE)),
                  Tail(cmds), creator)

Replay(db, cmds) == ReplayBy(db, cmds, Admin)

GenesisWsv == Replay(EmptyWsv, GenesisCommands)

NoCommand == [type |-> "none"]
NoLast == [cmd |-> NoCommand, creator |-> NoCreator, validate |-> FALSE,
           code |-> "none", dirty |-> FALSE]

(***************************************************************************)
(* One command of a transaction: executed, and rolled back when it fails.  *)
(***************************************************************************)
\* what is recorded of an executed command; dirty: the handler failed after
\* it had already written to the store
Executed(cmd, creator, do_validation, result) ==
    [cmd |-> cmd, creator |-> creator, validate |-> do_validation,
     code |-> result.code,
     dirty |-> result.code # "OK" /\ result.db # wsv]

otherVars == <<blocks, ledger, rst, handed, ord, twin, yac, pts, gate, os, rdb, uw>>

Creators == {Admin, UserU}

\* OnDemandOrderingInit after construction: no block committed, no round
\* switched to
IdleOrdering == [previous_hash |-> "", current_hash |-> "",
                 event |-> Absent, peers |-> Absent, round_switch |-> Absent,
                 chained |-> 0, fresh |-> FALSE, txs_committed |-> Absent]

\* the consensus gate before initConsensusGate
IdleYac == [pc |-> "idle"]

\* the accounts of the pending transaction storage tests
PendingAccounts == {"alice@iroha", "bob@iroha", "clark@iroha"}

\* what the storage holds for an account that has no pending batch
EmptyAccountBatches == [batches |-> <<>>, all_transactions_quantity |-> 0]

\* PendingTransactionStorage::Response{}: the default constructed response
EmptyResponse ==
    [result |-> "value", transactions |-> <<>>, all_transactions_size |-> 0,
     next_batch_info |-> {}]

\* the client that walks the pages of one account has not started
IdlePager ==
    [pc |-> "idle", creator |-> "", page_size |-> 0, first_tx_hash |-> {},
     transactions |-> <<>>, pages |-> 0]

\* PendingTransactionStorageImpl after SetUp: nothing stored, nothing asked
IdlePending ==
    [storage_ |-> [a \in PendingAccounts |-> EmptyAccountBatches],
     op |-> [type |-> "none"],
     response |-> EmptyResponse,
     pager |-> IdlePager]

\* OnDemandOrderingServiceImpl after construction: no proposal stored
IdleService ==
    [proposal_map_ |-> {},
     current_round_ |-> [block_round |-> 0, reject_round |-> 0],
     erased |-> {},
     op |-> [type |-> "none"]]

\* RocksDbTransaction on a fresh transaction context: nothing written, no
\* savepoint set
IdleDb == [store |-> {}, savepoints |-> <<>>, op |-> [type |-> "none"]]

\* no UnsignedWrapper has been constructed yet
IdleWrappers == [pc |-> "idle"]

\* the threads that use the ordering gate, and the one that stops it
GateWorkers == {"w1", "w2"}

\* a thread that is not inside an operation of the gate
OutsideGate == [pc |-> "idle", op |-> "none", after_stop |-> FALSE, calls |-> {}]

\* OnDemandOrderingGate after construction: stop_requested_{false}, the
\* stop_mutex_ free, no thread inside
IdleGate ==
    [stop_requested_ |-> FALSE,
     readers |-> {},
     writer |-> FALSE,
     worker |-> [w \in GateWorkers |-> OutsideGate],
     started |-> [w \in GateWorkers |-> 0],
     stopper |-> "idle",
     stops |-> 0]

IdleRestorer == [pc |-> "idle", wait_for_new_blocks |-> FALSE,
                 last_block_in_storage |-> 0, res |-> "none", polls |-> 0,
                 passes |-> 0, wsv_height_at_start |-> 0,
                 stop_wanted |-> FALSE]

InitIdle ==
    /\ blocks = << >>
    /\ ledger = Absent
    /\ rst = IdleRestorer
    /\ handed = << >>
    /\ ord = IdleOrdering
    /\ twin = IdleOrdering
    /\ yac = IdleYac
    /\ pts = IdlePending
    /\ gate = IdleGate
    /\ os = IdleService
    /\ rdb = IdleDb
    /\ uw = IdleWrappers

InitExecutor ==
    /\ wsv = GenesisWsv
    /\ last = NoLast
    /\ InitIdle

(***************************************************************************)
(* Peers: AddPeer and RemovePeer, validated or not.                        *)
(***************************************************************************)
DoAddPeer ==
    \E k \in PeerKeys, tls \in {Absent, Some("cert")},
       a \in Creators, v \in BOOLEAN :
        LET cmd == [type |-> "AddPeer", pubkey |-> k, address |-> "addr",
                    tls |-> tls]
            result == execute(wsv, cmd, a, v)
        IN /\ wsv' = Commit(wsv, result)
           /\ last' = Executed(cmd, a, v, result)
           /\ UNCHANGED otherVars

DoRemovePeer ==
    \E k \in PeerKeys \cup {""}, a \in Creators, v \in BOOLEAN :
        LET cmd == [type |-> "RemovePeer", pubkey |-> k]
            result == execute(wsv, cmd, a, v)
        IN /\ wsv' = Commit(wsv, result)
           /\ last' = Executed(cmd, a, v, result)
           /\ UNCHANGED otherVars

NextPeers == DoAddPeer \/ DoRemovePeer

SpecPeers == InitExecutor /\ [][NextPeers]_vars

PeerAddresses(db) == {k \in PeerKeys : Has(db.peer_address[k])}
PeersCount(db) == IF Has(db.peers_count) THEN Val(db.peers_count) ELSE 0

\* C7: the stored peers count is the number of public keys with a stored
\* peer address, and once the count has been written (a first peer was
\* added) it is never below 1.
C7_PeersCountMatches ==
    /\ PeersCount(wsv) = Cardinality(PeerAddresses(wsv))
    /\ Has(wsv.peers_count) => Val(wsv.peers_count) >= 1

\* a peer was removed and one peer is left
C7_Witness ==
    /\ last.cmd.type = "RemovePeer"
    /\ last.code = "OK"
    /\ PeersCount(wsv) = 1

\* C8: RemovePeer of an existing peer while the peers count is 1 fails and
\* leaves the address entry, the TLS entry and the count as they were; the
\* error is kPeersCountIsNotEnough whenever the command gets past its
\* permission check (validation off, or the creator holds kRemovePeer).
C8_LastPeerKept ==
    [][(/\ last'.cmd.type = "RemovePeer"
        /\ last'.cmd.pubkey \in PeerAddresses(wsv)
        /\ wsv.peers_count = Some(1))
       => (/\ last'.code # "OK"
           /\ (~last'.validate
               \/ IsSet(accountPermissions(wsv, last'.creator),
                        "kRemovePeer"))
              => last'.code = "kPeersCountIsNotEnough"
           /\ wsv'.peer_address = wsv.peer_address
           /\ wsv'.peer_tls = wsv.peer_tls
           /\ wsv'.peers_count = wsv.peers_count)]_vars

\* the last peer, stored with a TLS certificate, was refused removal
C8_Witness ==
    /\ last.cmd.type = "RemovePeer"
    /\ last.code = "kPeersCountIsNotEnough"
    /\ wsv.peers_count = Some(1)
    /\ Has(wsv.peer_address[last.cmd.pubkey])
    /\ Has(wsv.peer_tls[last.cmd.pubkey])

(***************************************************************************)
(* Accounts: CreateAccount, AddSignatory, RemoveSignatory and SetQuorum,   *)
(* executed with validation.                                               *)
(***************************************************************************)
MaxQuorum == 3

DoCreateAccount ==
    \E k \in PubKeys, a \in Creators :
        LET cmd == [type |-> "CreateAccount", account_name |-> "v",
                    domain_id |-> "e", pubkey |-> k]
            result == execute(wsv, cmd, a, TRUE)
        IN /\ wsv' = Commit(wsv, result)
           /\ last' = Executed(cmd, a, TRUE, result)
           /\ UNCHANGED otherVars

DoAddSignatory ==
    \E t \in {UserU, UserV}, k \in PubKeys, a \in Creators :
        LET cmd == [type |-> "AddSignatory", account_id |-> t, pubkey |-> k]
            result == execute(wsv, cmd, a, TRUE)
        IN /\ wsv' = Commit(wsv, result)
           /\ last' = Executed(cmd, a, TRUE, result)
           /\ UNCHANGED otherVars

DoRemoveSignatory ==
    \E t \in {UserU, UserV}, k \in PubKeys, a \in Creators :
        LET cmd == [type |-> "RemoveSignatory", account_id |-> t,
                    pubkey |-> k]
            result == execute(wsv, cmd, a, TRUE)
        IN /\ wsv' = Commit(wsv, result)
           /\ last' = Executed(cmd, a, TRUE, result)
           /\ UNCHANGED otherVars

DoSetQuorum ==
    \E t \in {UserU, UserV}, q \in 0..MaxQuorum, a \in Creators :
        LET cmd == [type |-> "SetQuorum", account_id |-> t, new_quorum |-> q]
            result == execute(wsv, cmd, a, TRUE)
        IN /\ wsv' = Commit(wsv, result)
           /\ last' = Executed(cmd, a, TRUE, result)
           /\ UNCHANGED otherVars

NextAccounts ==
    DoCreateAccount \/ DoAddSignatory \/ DoRemoveSignatory \/ DoSetQuorum

SpecAccounts == InitExecutor /\ [][NextAccounts]_vars

\* C1: every existing account has at least as many signatories as its
\* quorum, and a quorum of at least 1.
C1_QuorumWithinSignatories ==
    \A a \in AccountIds :
        AccountExists(wsv, a) =>
            /\ Cardinality(wsv.signatory[a]) >= Val(wsv.quorum[a])
            /\ Val(wsv.quorum[a]) >= 1

(***************************************************************************)
(* Assets: AddAssetQuantity, SubtractAssetQuantity and TransferAsset.      *)
(***************************************************************************)
AmountInputs == {Amount(0, 1), Amount(1, 1), Amount(2, 1), Amount(1, 2)}
TransferModes == {<<Admin, TRUE>>, <<UserU, TRUE>>, <<Admin, FALSE>>}

DoAddAssetQuantity ==
    \E m \in AmountInputs, a \in Creators, v \in BOOLEAN :
        LET cmd == [type |-> "AddAssetQuantity", asset_id |-> Coin,
                    amount |-> m]
            result == execute(wsv, cmd, a, v)
        IN /\ wsv' = Commit(wsv, result)
           /\ last' = Executed(cmd, a, v, result)
           /\ UNCHANGED otherVars

DoSubtractAssetQuantity ==
    \E m \in AmountInputs, a \in Creators, v \in BOOLEAN :
        LET cmd == [type |-> "SubtractAssetQuantity", asset_id |-> Coin,
                    amount |-> m]
            result == execute(wsv, cmd, a, v)
        IN /\ wsv' = Commit(wsv, result)
           /\ last' = Executed(cmd, a, v, result)
           /\ UNCHANGED otherVars

DoTransferAsset ==
    \E src \in Creators, dst \in AccountIds, m \in AmountInputs,
       mode \in TransferModes :
        LET cmd == [type |-> "TransferAsset", src_account_id |-> src,
                    dest_account_id |-> dst, asset_id |-> Coin,
                    amount |-> m, description_size |-> 0]
            result == execute(wsv, cmd, mode[1], mode[2])
        IN /\ wsv' = Commit(wsv, result)
           /\ last' = Executed(cmd, mode[1], mode[2], result)
           /\ UNCHANGED otherVars

NextAssets ==
    DoAddAssetQuantity \/ DoSubtractAssetQuantity \/ DoTransferAsset

SpecAssets == InitExecutor /\ [][NextAssets]_vars

\* a balance in units of the asset's precision, 0 when no entry is stored
BalanceOf(db, account, asset) ==
    IF Has(db.account_asset[<<account, asset>>])
    THEN Val(db.account_asset[<<account, asset>>]).val
    ELSE 0

RECURSIVE SumBalances(_, _, _)
SumBalances(db, accounts, asset) ==
    IF accounts = {} THEN 0
    ELSE LET a == CHOOSE x \in accounts : TRUE
         IN BalanceOf(db, a, asset) + SumBalances(db, accounts \ {a}, asset)

TotalOf(db, asset) == SumBalances(db, AccountIds, asset)

\* the command's amount in units of the asset's precision
AmountUnits(db, cmd) == Scaled(cmd.amount, Val(db.asset[cmd.asset_id]))

\* C2: a successful TransferAsset leaves the sum of the asset's balances
\* over all accounts unchanged, whatever the source and the destination.
C2_TransferKeepsTotal ==
    [][(last'.cmd.type = "TransferAsset" /\ last'.code = "OK")
       => TotalOf(wsv', last'.cmd.asset_id) = TotalOf(wsv, last'.cmd.asset_id)
      ]_vars

\* C9: no stored balance is the invalid ('N') amount, and an asset command
\* that fails has written nothing.
AssetCommands == {"AddAssetQuantity", "SubtractAssetQuantity", "TransferAsset"}
ArithmeticErrors == {"kInvalidAssetAmount", "kInvalidAmount",
                     "kNotEnoughAssets", "kIncorrectBalance"}

C9_BalancesNonNegative ==
    /\ \A k \in AccountIds \X AssetIds :
           Has(wsv.account_asset[k]) =>
               /\ Val(wsv.account_asset[k]).valid
               /\ Val(wsv.account_asset[k]).val >= 0
    /\ (last.cmd.type \in AssetCommands /\ last.code # "OK") => ~last.dirty

\* a subtraction below zero was refused while a balance is stored
C9_Witness ==
    /\ last.cmd.type = "SubtractAssetQuantity"
    /\ last.code = "kInvalidAmount"
    /\ Has(wsv.account_asset[<<last.creator, Coin>>])
    /\ Val(wsv.account_asset[<<last.creator, Coin>>]).val > 0

(***************************************************************************)
(* The WSV restorer.  The block log is written by another process: a block *)
(* file that is not yet completely written cannot be read.                 *)
(***************************************************************************)
MaxBlocks == 3
MaxPolls == 2
Hashes == {"A", "B"}

\* what can be stored at height h: a good block, a block that cannot be
\* read, a block that carries another height, a block the proto validator
\* rejects, a block the interface validator rejects
BlocksAt(h) ==
    {[height |-> h, hash |-> x, readable |-> TRUE, proto_ok |-> TRUE,
      interface_ok |-> TRUE] : x \in Hashes}
    \cup {[height |-> h, hash |-> "A", readable |-> FALSE, proto_ok |-> TRUE,
           interface_ok |-> TRUE],
          [height |-> h + 1, hash |-> "A", readable |-> TRUE,
           proto_ok |-> TRUE, interface_ok |-> TRUE],
          [height |-> h, hash |-> "A", readable |-> TRUE, proto_ok |-> FALSE,
           interface_ok |-> TRUE],
          [height |-> h, hash |-> "A", readable |-> TRUE, proto_ok |-> TRUE,
           interface_ok |-> FALSE]}

\* BlockQuery::getTopBlockHeight
getTopBlockHeight == Len(blocks)

\* BlockQuery::getBlock(height) has a value
getBlockOk(h) == h \in 1..Len(blocks) /\ blocks[h].readable

Min(S) == CHOOSE x \in S : \A y \in S : x <= y

\* the ascending sequence of the heights from..to
RECURSIVE Range(_, _)
Range(from, to) == IF from > to THEN << >>
                   ELSE <<from>> \o Range(from + 1, to)

reindexErrorsNoInterfaceValidator(starting_height, ending_height) ==
    {h \in starting_height..ending_height :
        \/ ~getBlockOk(h)
        \/ blocks[h].height # h
        \/ (h # 1 /\ ~blocks[h].proto_ok)}

\* reindexBlocks: the heights at which the observable ends with on_error
reindexErrors(starting_height, ending_height) ==
    {h \in starting_height..ending_height :
        \/ ~getBlockOk(h)
        \/ blocks[h].height # h
        \/ (h # 1 /\ ~blocks[h].proto_ok)
        \/ (h # 1 /\ ~blocks[h].interface_ok)}

\* reindexBlocks: the heights passed to on_next, and whether it commits
reindexBlocks(starting_height, ending_height) ==
    LET errors == reindexErrors(starting_height, ending_height) IN
    IF errors = {}
    THEN [ok |-> TRUE, applied |-> Range(starting_height, ending_height)]
    ELSE [ok |-> FALSE, applied |-> Range(starting_height, Min(errors) - 1)]

wsvLedgerHeight == IF Has(ledger) THEN Val(ledger).height ELSE 0

checkTopBlockNoHash ==
    ~Has(ledger)
    \/ (/\ Val(ledger).height <= rst.last_block_in_storage
        /\ getBlockOk(Val(ledger).height))

\* restoreWsv: the persisted WSV state agrees with the block storage
checkTopBlock ==
    ~Has(ledger)
    \/ (/\ Val(ledger).height <= rst.last_block_in_storage
        /\ getBlockOk(Val(ledger).height)
        /\ blocks[Val(ledger).height].hash = Val(ledger).top_hash)

startingHeightRepeated == wsvLedgerHeight

\* restoreWsv: the first height given to reindexBlocks
startingHeight == wsvLedgerHeight + 1

\* restoreWsv is called: the top height of the block storage is read
StartRestore ==
    /\ rst.pc = "idle"
    /\ \E w \in BOOLEAN :
         rst' = [rst EXCEPT !.pc = "pass", !.wait_for_new_blocks = w,
                            !.last_block_in_storage = getTopBlockHeight,
                            !.wsv_height_at_start = wsvLedgerHeight]
    /\ UNCHANGED <<wsv, last, blocks, ledger, handed, ord, twin, yac, pts, gate, os, rdb, uw>>

\* one pass of the do-loop body: check the WSV state, replay, commit
RestorePass ==
    /\ rst.pc = "pass"
    /\ LET pass == reindexBlocks(startingHeight, rst.last_block_in_storage)
           n == Len(pass.applied)
       IN IF ~checkTopBlock
          THEN /\ rst' = [rst EXCEPT !.pc = "done", !.res = "error",
                                     !.passes = @ + 1]
               /\ UNCHANGED <<ledger, handed>>
          ELSE /\ handed' = handed \o pass.applied
               /\ IF pass.ok
                  THEN /\ ledger' = IF n = 0 THEN ledger
                                    ELSE Some([height |-> pass.applied[n],
                                               top_hash |->
                                                 blocks[pass.applied[n]].hash])
                       /\ rst' = [rst EXCEPT
                                    !.pc = IF rst.wait_for_new_blocks
                                           THEN "wait" ELSE "done",
                                    !.res = "ok", !.passes = @ + 1]
                  ELSE /\ ledger' = ledger
                       /\ rst' = [rst EXCEPT !.pc = "done", !.res = "error",
                                             !.passes = @ + 1]
    /\ UNCHANGED <<wsv, last, blocks, ord, twin, yac, pts, gate, os, rdb, uw>>

\* a probe that steps down while the first getBlock failed, with no floor
probedHeightNoFloor ==
    IF getBlockOk(getTopBlockHeight) THEN getTopBlockHeight ELSE 0

\* the wait loop: the height new_last_block is left at by the probe.  The
\* inner loop declares its own block_result, so the loop condition keeps
\* testing the result of the first getBlock.
probedHeight ==
    IF getBlockOk(getTopBlockHeight) THEN getTopBlockHeight
    ELSE IF getTopBlockHeight > rst.last_block_in_storage
    THEN rst.last_block_in_storage
    ELSE getTopBlockHeight

\* one iteration of while (wait_for_new_blocks): sleep, reload, probe
Poll ==
    /\ rst.pc = "wait"
    /\ rst.polls < MaxPolls
    /\ rst' = [rst EXCEPT
                 !.polls = @ + 1,
                 !.pc = IF probedHeight > rst.last_block_in_storage
                        THEN "pass" ELSE "wait",
                 !.last_block_in_storage =
                        IF probedHeight > rst.last_block_in_storage
                        THEN probedHeight ELSE @]
    /\ UNCHANGED <<wsv, last, blocks, ledger, handed, ord, twin, yac, pts, gate, os, rdb, uw>>

\* the block storage gains a block file, complete or not
AppendBlock ==
    /\ Len(blocks) < MaxBlocks
    /\ \E b \in BlocksAt(Len(blocks) + 1) : blocks' = Append(blocks, b)
    /\ UNCHANGED <<wsv, last, ledger, rst, handed, ord, twin, yac, pts, gate, os, rdb, uw>>

\* the writer of the block storage completes the newest block file
FinishWrite ==
    /\ Len(blocks) > 0
    /\ ~blocks[Len(blocks)].readable
    /\ blocks' = [blocks EXCEPT ![Len(blocks)].readable = TRUE]
    /\ UNCHANGED <<wsv, last, ledger, rst, handed, ord, twin, yac, pts, gate, os, rdb, uw>>

InitRestore ==
    /\ wsv = EmptyWsv
    /\ last = NoLast
    /\ blocks = << >>
    /\ ledger \in {Absent} \cup
                  {Some([height |-> h, top_hash |-> x]) :
                       h \in 1..MaxBlocks, x \in Hashes}
    /\ rst = IdleRestorer
    /\ handed = << >>
    /\ ord = IdleOrdering
    /\ twin = IdleOrdering
    /\ yac = IdleYac
    /\ pts = IdlePending
    /\ gate = IdleGate
    /\ os = IdleService
    /\ rdb = IdleDb
    /\ uw = IdleWrappers

NextRestore ==
    StartRestore \/ RestorePass \/ Poll \/ AppendBlock \/ FinishWrite

SpecRestore == InitRestore /\ [][NextRestore]_vars

\* a pass of the restorer is the step that leaves the position "pass"
PassStep == rst.pc = "pass" /\ rst'.pc # "pass"

\* a probe of the wait loop is the step that counts one more sleep
PollStep == rst.pc = "wait" /\ rst'.polls = rst.polls + 1

\* C4: over all passes of restoreWsv the heights handed to the mutable
\* storage ascend by exactly one, the first one is the WSV height found at
\* the start plus one, every handed block carries the height it was fetched
\* at, and a pass that meets a block carrying another height ends in an
\* error without committing.
C4_AscendingContiguous ==
    /\ [](/\ \A i \in 2..Len(handed) : handed[i] = handed[i - 1] + 1
          /\ (Len(handed) > 0 => handed[1] = rst.wsv_height_at_start + 1)
          /\ \A i \in 1..Len(handed) : blocks[handed[i]].height = handed[i])
    /\ [][(/\ PassStep
           /\ checkTopBlock
           /\ \E h \in startingHeight..rst.last_block_in_storage :
                 getBlockOk(h) /\ blocks[h].height # h)
          => (/\ rst'.res = "error"
              /\ rst'.pc = "done"
              /\ ledger' = ledger)]_vars

C4_Witness ==
    /\ rst.passes >= 2
    /\ rst.wsv_height_at_start >= 1
    /\ Len(handed) >= 2

\* C5: a pass of restoreWsv that finds a WSV state whose height is above the
\* top of the block storage, or whose block in the storage cannot be read or
\* has another hash, ends restoreWsv with an error and hands no block to the
\* mutable storage.
C5_StaleWsvRejected ==
    [][(/\ PassStep
        /\ Has(ledger)
        /\ \/ Val(ledger).height > getTopBlockHeight
           \/ ~getBlockOk(Val(ledger).height)
           \/ blocks[Val(ledger).height].hash # Val(ledger).top_hash)
       => (/\ rst'.res = "error"
           /\ rst'.pc = "done"
           /\ handed' = handed
           /\ ledger' = ledger)]_vars

C5_Witness ==
    /\ rst.pc = "done"
    /\ rst.res = "error"
    /\ handed = << >>
    /\ Has(ledger)
    /\ getBlockOk(Val(ledger).height)
    /\ blocks[Val(ledger).height].hash # Val(ledger).top_hash

\* C6: in wait mode, when the block storage has grown to a top height T
\* above L + 1 whose block cannot be read while the blocks L + 1 .. T - 1
\* can, the probe makes the restorer replay up to T - 1 in the next pass.
C6_PartialTopSkipped ==
    [][(/\ PollStep
        /\ getTopBlockHeight > rst.last_block_in_storage + 1
        /\ ~getBlockOk(getTopBlockHeight)
        /\ \A h \in (rst.last_block_in_storage + 1)..(getTopBlockHeight - 1) :
              getBlockOk(h))
       => (/\ rst'.pc = "pass"
           /\ rst'.last_block_in_storage = getTopBlockHeight - 1)]_vars

(***************************************************************************)
(* On-demand ordering initialisation: round switching and peer selection.  *)
(***************************************************************************)
MaxRound == 2
kFirstRejectRound == 0
OrdHashes == {"", "b1", "b2"}
TxHashes == {"t1", "t2"}
BlockTransactions == {{"t1"}, {"t1", "t2"}}
BlockRejected == {{}, {"t1"}}
PeerLists == {<<"p1">>, <<"p1", "p2">>, <<"p1", "p2", "p3">>}
Outcomes == {"kCommit", "kReject", "kNothing"}
Rounds == [block_round : 1..MaxRound, reject_round : 0..MaxRound]

nextCommitRound(round) ==
    [block_round |-> round.block_round + 1, reject_round |-> kFirstRejectRound]

nextRejectRound(round) ==
    [block_round |-> round.block_round, reject_round |-> round.reject_round + 1]

\* the bytes of a hash blob; a byte has two bits here, a ValueType two bytes
HashBlob(hash) ==
    CASE hash = "" -> << >>
      [] hash = "b1" -> <<1, 0, 2, 3>>
      [] hash = "b2" -> <<3, 2, 0, 1>>
      [] OTHER -> <<2, 1, 3>>

kInitialSeedValue == 0
ByteValues == 4
ValueTypeBytes == 2
ValueTypeValues == 16

\* bitwise exclusive or of two values of ValueType
RECURSIVE Xor(_, _)
Xor(a, b) ==
    IF a = 0 THEN b
    ELSE IF b = 0 THEN a
    ELSE ((a + b) % 2) + 2 * Xor(a \div 2, b \div 2)

\* bitwise or of two values of ValueType
RECURSIVE Or(_, _)
Or(a, b) ==
    IF a = 0 THEN b
    ELSE IF b = 0 THEN a
    ELSE (IF a % 2 = 1 \/ b % 2 = 1 THEN 1 ELSE 0) + 2 * Or(a \div 2, b \div 2)

\* RandomEngine{seed}: the value its i-th call yields, i = 0 for the first
RECURSIVE RandomEngine(_, _)
RandomEngine(seed, i) ==
    LET state == IF i = 0 THEN seed ELSE RandomEngine(seed, i - 1)
    IN (5 * state + 3) % ValueTypeValues

\* Seeder::feed(ValueType): like CBC
feedValue(current_seed, value) == RandomEngine(Xor(current_seed, value), 0)

\* the ValueType read at a byte offset of the blob (low byte first)
RECURSIVE WordAt(_, _, _)
WordAt(blob, start, n) ==
    IF n = 0 THEN 0
    ELSE blob[start] + ByteValues * WordAt(blob, start + 1, n - 1)

\* Seeder::feed(seed_start, seed_length): the tail bytes are or-ed into the
\* low byte and shifted by one byte after each of them
RECURSIVE TailValue(_, _, _)
TailValue(blob, start, tail) ==
    IF start > Len(blob) THEN tail
    ELSE TailValue(blob, start + 1,
                   (Or(tail, blob[start]) * ByteValues) % ValueTypeValues)

RECURSIVE feedWords(_, _, _)
feedWords(current_seed, blob, start) ==
    IF start + ValueTypeBytes - 1 <= Len(blob)
    THEN feedWords(feedValue(current_seed, WordAt(blob, start, ValueTypeBytes)),
                   blob, start + ValueTypeBytes)
    ELSE IF start <= Len(blob)
    THEN feedValue(current_seed, TailValue(blob, start, 0))
    ELSE current_seed

\* makeSeededPrng: the seed of the engine built from a hash
makeSeededPrng(hash) == feedWords(kInitialSeedValue, HashBlob(hash), 1)

\* the seeds of the engines built from the hashes a node can hold
SeededPrng == [hash \in OrdHashes |-> makeSeededPrng(hash)]

\* the i-th value of the engine that makeSeededPrng builds from a hash
PrngDraw(hash, i) == RandomEngine(SeededPrng[hash], i)

\* generatePermutation: iota, then swap every position with a drawn one
RECURSIVE Shuffle(_, _, _, _)
Shuffle(permutation, it, hash, size) ==
    IF it = size THEN permutation
    ELSE LET j == PrngDraw(hash, it) % size
         IN Shuffle([permutation EXCEPT ![it] = permutation[j],
                                        ![j] = permutation[it]],
                    it + 1, hash, size)

\* a shuffle that copies the drawn element instead of swapping with it
RECURSIVE Overwrite(_, _, _, _)
Overwrite(permutation, it, hash, size) ==
    IF it = size THEN permutation
    ELSE LET j == PrngDraw(hash, it) % size
         IN Overwrite([permutation EXCEPT ![it] = permutation[j]],
                      it + 1, hash, size)

generatePermutationOverwrites(hash, size) == Overwrite([i \in 0..(size - 1) |-> i], 0, hash, size)

generatePermutation(hash, size) ==
    Shuffle([i \in 0..(size - 1) |-> i], 0, hash, size)

\* getOsPeer: the reject round is wrapped with the number of peers
getOsPeer(permutation, reject_round, current_peers) ==
    current_peers[permutation[reject_round % Len(current_peers)] + 1]

switchedRoundNothingStays(event) ==
    CASE event.sync_outcome = "kCommit" -> nextCommitRound(event.round)
      [] event.sync_outcome = "kReject" -> nextRejectRound(event.round)
      [] OTHER -> event.round

\* processSynchronizationEvent: the switch over event.sync_outcome
switchedRound(event) ==
    CASE event.sync_outcome = "kCommit" -> nextCommitRound(event.round)
      [] event.sync_outcome = "kReject" -> nextRejectRound(event.round)
      [] OTHER -> nextRejectRound(event.round)

processSynchronizationEventCountsOwnSwitches(node, event) ==
    LET ledger_peers == event.ledger_peers
        size == Len(ledger_peers)
        kCurrentRound == generatePermutation(node.previous_hash, size)
        kNextRound == generatePermutation(node.current_hash, size)
        current_round == switchedRound(event)
    IN [node EXCEPT
          !.event = Some(event),
          !.chained = IF Has(node.round_switch)
                         /\ Val(node.round_switch).next_round = event.round
                      THEN @ + 1 ELSE 0,
          !.fresh = TRUE,
          !.peers = Some(
            [kRejectConsumer |->
               getOsPeer(kCurrentRound, node.chained + 1, ledger_peers),
             kCommitConsumer |->
               getOsPeer(kNextRound,
                         nextCommitRound(current_round).reject_round,
                         ledger_peers),
             kIssuer |->
               getOsPeer(kCurrentRound, node.chained, ledger_peers)]),
          !.round_switch = Some([next_round |-> current_round,
                                 ledger_peers |-> ledger_peers])]

\* the commit consumer taken from the permutation of the current round
processSynchronizationEventOnePermutation(node, event) ==
    LET ledger_peers == event.ledger_peers
        size == Len(ledger_peers)
        kCurrentRound == generatePermutation(node.previous_hash, size)
        current_round == switchedRound(event)
    IN [node EXCEPT
          !.event = Some(event),
          !.chained = IF Has(node.round_switch)
                         /\ Val(node.round_switch).next_round = event.round
                      THEN @ + 1 ELSE 0,
          !.fresh = TRUE,
          !.peers = Some(
            [kRejectConsumer |->
               getOsPeer(kCurrentRound,
                         nextRejectRound(current_round).reject_round,
                         ledger_peers),
             kCommitConsumer |->
               getOsPeer(kCurrentRound,
                         nextCommitRound(current_round).reject_round,
                         ledger_peers),
             kIssuer |->
               getOsPeer(kCurrentRound, current_round.reject_round,
                         ledger_peers)]),
          !.round_switch = Some([next_round |-> current_round,
                                 ledger_peers |-> ledger_peers])]

\* processSynchronizationEvent on the members of one node
processSynchronizationEvent(node, event) ==
    LET ledger_peers == event.ledger_peers
        size == Len(ledger_peers)
        kCurrentRound == generatePermutation(node.previous_hash, size)
        kNextRound == generatePermutation(node.current_hash, size)
        current_round == switchedRound(event)
    IN [node EXCEPT
          !.event = Some(event),
          !.chained = IF Has(node.round_switch)
                         /\ Val(node.round_switch).next_round = event.round
                      THEN @ + 1 ELSE 0,
          !.fresh = TRUE,
          !.peers = Some(
            [kRejectConsumer |->
               getOsPeer(kCurrentRound,
                         nextRejectRound(current_round).reject_round,
                         ledger_peers),
             kCommitConsumer |->
               getOsPeer(kNextRound,
                         nextCommitRound(current_round).reject_round,
                         ledger_peers),
             kIssuer |->
               getOsPeer(kCurrentRound, current_round.reject_round,
                         ledger_peers)]),
          !.round_switch = Some([next_round |-> current_round,
                                 ledger_peers |-> ledger_peers])]

processCommittedBlockCommittedOnly(node, block) ==
    [node EXCEPT
       !.previous_hash = block.prev_hash,
       !.current_hash = block.hash,
       !.fresh = FALSE,
       !.txs_committed = Some(block.transactions)]

\* processCommittedBlock on the members of one node
processCommittedBlock(node, block) ==
    [node EXCEPT
       !.previous_hash = block.prev_hash,
       !.current_hash = block.hash,
       !.fresh = FALSE,
       !.txs_committed =
           Some(block.transactions \cup block.rejected_transactions_hashes)]

ProcessSynchronizationEvent ==
    \E round \in Rounds, outcome \in Outcomes, ledger_peers \in PeerLists :
        /\ ord' = processSynchronizationEvent(
                      ord, [round |-> round, sync_outcome |-> outcome,
                            ledger_peers |-> ledger_peers])
        /\ UNCHANGED <<wsv, last, blocks, ledger, rst, handed, twin, yac, pts, gate, os, rdb, uw>>

ProcessCommittedBlock ==
    \E prev \in OrdHashes, hash \in OrdHashes \ {""},
       transactions \in BlockTransactions,
       rejected_transactions_hashes \in BlockRejected :
        /\ ord' = processCommittedBlock(
                      ord, [prev_hash |-> prev, hash |-> hash,
                            transactions |-> transactions,
                            rejected_transactions_hashes |->
                                rejected_transactions_hashes])
        /\ UNCHANGED <<wsv, last, blocks, ledger, rst, handed, twin, yac, pts, gate, os, rdb, uw>>

InitOrdering ==
    /\ wsv = EmptyWsv
    /\ last = NoLast
    /\ blocks = << >>
    /\ ledger = Absent
    /\ rst = IdleRestorer
    /\ handed = << >>
    /\ ord = IdleOrdering
    /\ twin = IdleOrdering
    /\ yac = IdleYac
    /\ pts = IdlePending
    /\ gate = IdleGate
    /\ os = IdleService
    /\ rdb = IdleDb
    /\ uw = IdleWrappers

NextOrdering == ProcessSynchronizationEvent \/ ProcessCommittedBlock

SpecOrdering == InitOrdering /\ [][NextOrdering]_vars

RoundLess(a, b) ==
    \/ a.block_round < b.block_round
    \/ a.block_round = b.block_round /\ a.reject_round < b.reject_round

\* C10: processSynchronizationEvent hands processRoundSwitch the round
\* {h + 1, first reject round} after a kCommit event for {h, r} and the
\* round {h, r + 1} after a kReject or kNothing event; when the event
\* carries the round switched to before, the new round is strictly greater
\* in the order by block round, then reject round.
C10_RoundsIncrease ==
    [][(ord'.event # ord.event \/ ord'.round_switch # ord.round_switch)
       => LET event == Val(ord'.event)
              next == Val(ord'.round_switch).next_round
          IN /\ event.sync_outcome = "kCommit" =>
                   next = [block_round |-> event.round.block_round + 1,
                           reject_round |-> kFirstRejectRound]
             /\ event.sync_outcome \in {"kReject", "kNothing"} =>
                   next = [block_round |-> event.round.block_round,
                           reject_round |-> event.round.reject_round + 1]
             /\ (Has(ord.round_switch)
                 /\ event.round = Val(ord.round_switch).next_round)
                => RoundLess(Val(ord.round_switch).next_round, next)]_vars

C10_Witness ==
    /\ ord.chained >= 2
    /\ Val(ord.event).sync_outcome = "kNothing"
    /\ Val(ord.event).round.reject_round >= 1
    /\ Val(ord.round_switch).next_round =
           [block_round |-> Val(ord.event).round.block_round,
            reject_round |-> Val(ord.event).round.reject_round + 1]

(***************************************************************************)
(* One command executed from a state of the store: the states are those   *)
(* left by a prefix of the genesis block followed by further blocks.       *)
(***************************************************************************)
GenesisPrefixes == {SubSeq(GenesisCommands, 1, n) : n \in 5..8}

PeerBlocks ==
    { << >>,
      << [type |-> "AddPeer", pubkey |-> "p1", address |-> "addr",
          tls |-> Absent] >>,
      << [type |-> "AddPeer", pubkey |-> "p1", address |-> "addr",
          tls |-> Some("cert")],
         [type |-> "AddPeer", pubkey |-> "p2", address |-> "addr",
          tls |-> Absent] >> }

AssetBlocks ==
    { << >>,
      << [type |-> "AddAssetQuantity", asset_id |-> Coin,
          amount |-> Amount(2, 1)] >>,
      << [type |-> "AddAssetQuantity", asset_id |-> Coin,
          amount |-> Amount(2, 1)],
         [type |-> "TransferAsset", src_account_id |-> Admin,
          dest_account_id |-> UserU, asset_id |-> Coin,
          amount |-> Amount(1, 1), description_size |-> 0] >> }

AccountBlocks ==
    { << >>,
      << [type |-> "AddSignatory", account_id |-> UserU, pubkey |-> "k1"] >>,
      << [type |-> "AddSignatory", account_id |-> UserU, pubkey |-> "k1"],
         [type |-> "SetQuorum", account_id |-> UserU, new_quorum |-> 2],
         [type |-> "CreateRole", role_name |-> "r",
          role_permissions |-> {"kSetDetail", "kGetMyAccDetail"}],
         [type |-> "AppendRole", account_id |-> UserU, role_name |-> "r"] >>,
      << [type |-> "CreateAccount", account_name |-> "v", domain_id |-> "e",
          pubkey |-> "k1"],
         [type |-> "SetAccountDetail", account_id |-> UserU, key |-> "key",
          value |-> "x"],
         [type |-> "SetSettingValue", key |-> "max_description_size",
          value |-> "1"] >> }

\* blocks whose transactions are created by u@d
UserBlocks ==
    { << >>,
      << [type |-> "GrantPermission", account_id |-> Admin,
          permission_name |-> "kSetMyQuorum"],
         [type |-> "SetAccountDetail", account_id |-> UserU, key |-> "key",
          value |-> "x"] >>,
      << [type |-> "GrantPermission", account_id |-> Admin,
          permission_name |-> "kTransferMyAssets"],
         [type |-> "GrantPermission", account_id |-> Admin,
          permission_name |-> "kSetMyAccountDetail"] >> }

AfterGenesis == {Replay(EmptyWsv, g) : g \in GenesisPrefixes}
AfterPeerBlocks == {Replay(db, b) : db \in AfterGenesis, b \in PeerBlocks}
AfterAssetBlocks ==
    {Replay(db, b) : db \in AfterPeerBlocks, b \in AssetBlocks}
AfterAccountBlocks ==
    {Replay(db, b) : db \in AfterAssetBlocks, b \in AccountBlocks}
ReplayedStates ==
    {ReplayBy(db, b, UserU) : db \in AfterAccountBlocks, b \in UserBlocks}

ReplayCommands ==
    {[type |-> "AddPeer", pubkey |-> k, address |-> "addr", tls |-> Absent] :
        k \in {"p1", "p3"}}
    \cup {[type |-> "RemovePeer", pubkey |-> k] : k \in {"p1", "p3"}}
    \cup {[type |-> "CreateAccount", account_name |-> n[1],
           domain_id |-> n[2], pubkey |-> k] :
             n \in {UserU, UserV}, k \in {"K1"}}
    \cup {[type |-> t, account_id |-> a, pubkey |-> k] :
             t \in {"AddSignatory", "RemoveSignatory"},
             a \in {Admin, UserU}, k \in {"k1", "k2"}}
    \cup {[type |-> "SetQuorum", account_id |-> a, new_quorum |-> q] :
             a \in {Admin, UserU}, q \in 0..2}
    \cup {[type |-> t, asset_id |-> Coin, amount |-> m] :
             t \in {"AddAssetQuantity", "SubtractAssetQuantity"},
             m \in {Amount(1, 1), Amount(2, 1)}}
    \cup {[type |-> "TransferAsset", src_account_id |-> a,
           dest_account_id |-> b, asset_id |-> Coin,
           amount |-> Amount(1, 1), description_size |-> n] :
             a \in {Admin, UserU}, b \in AccountIds, n \in {0, 2}}
    \cup {[type |-> t, account_id |-> UserU, role_name |-> r] :
             t \in {"AppendRole", "DetachRole"}, r \in {"user", "r"}}
    \cup {[type |-> "CreateRole", role_name |-> "r", role_permissions |-> ps] :
             ps \in {{"kSetDetail"}, {"kRoot"}}}
    \cup {[type |-> "CreateDomain", domain_id |-> "e",
           user_default_role |-> r] : r \in {"user", "r"}}
    \cup {[type |-> "CreateAsset", asset_name |-> "coin", domain_id |-> "d",
           precision |-> n] : n \in {1, 2}}
    \cup {[type |-> t, account_id |-> a, permission_name |-> g] :
             t \in {"GrantPermission", "RevokePermission"},
             a \in {Admin, UserU},
             g \in {"kSetMyQuorum", "kTransferMyAssets"}}
    \cup {[type |-> "SetAccountDetail", account_id |-> a, key |-> "key",
           value |-> "y"] : a \in {Admin, UserU}}
    \cup {[type |-> "CompareAndSetAccountDetail", account_id |-> a,
           key |-> "key", value |-> "y", old_value |-> o, check_empty |-> e] :
             a \in {Admin, UserU}, o \in {Absent, Some("x")},
             e \in BOOLEAN}
    \cup {[type |-> "SetSettingValue", key |-> "max_description_size",
           value |-> "1"],
          [type |-> "CallEngine"]}

InitReplay ==
    /\ wsv \in ReplayedStates
    /\ last = NoLast
    /\ InitIdle

\* execute(cmd, creator, tx_hash, cmd_index, do_validation), once
ExecuteCommand ==
    /\ last = NoLast
    /\ \E cmd \in ReplayCommands, a \in Creators, v \in BOOLEAN :
         LET result == execute(wsv, cmd, a, v)
         IN /\ wsv' = Commit(wsv, result)
            /\ last' = Executed(cmd, a, v, result)
            /\ UNCHANGED otherVars

NextReplay == ExecuteCommand

SpecReplay == InitReplay /\ [][NextReplay]_vars

\* C3: a command that succeeds when executed with validation also succeeds
\* when executed from the same state without validation, and leaves exactly
\* the same store.
C3_ReplayReproduces ==
    [][(last'.validate /\ last'.code = "OK")
       => execute(wsv, last'.cmd, last'.creator, FALSE) = Ok(wsv')]_vars

C3_Witness ==
    /\ last.validate
    /\ last.code = "OK"
    /\ last.creator = UserU
    /\ last.cmd.type = "TransferAsset"

(***************************************************************************)
(* Two nodes, each with its own OnDemandOrderingInit, fed independently.   *)
(***************************************************************************)
NodeEvents ==
    [round : {[block_round |-> 1, reject_round |-> 0],
              [block_round |-> 1, reject_round |-> 1]},
     sync_outcome : Outcomes,
     ledger_peers : {<<"p1", "p2">>, <<"p1", "p2", "p3">>}]

NodeBlocks ==
    {[prev_hash |-> "", hash |-> "b1", transactions |-> {"t1"},
      rejected_transactions_hashes |-> {}],
     [prev_hash |-> "b1", hash |-> "b2", transactions |-> {"t1", "t2"},
      rejected_transactions_hashes |-> {"t1"}]}

NodeProcessSynchronizationEvent ==
    \E event \in NodeEvents :
        /\ ord' = processSynchronizationEvent(ord, event)
        /\ UNCHANGED <<wsv, last, blocks, ledger, rst, handed, twin, yac, pts, gate, os, rdb, uw>>

NodeProcessCommittedBlock ==
    \E block \in NodeBlocks :
        /\ ord' = processCommittedBlock(ord, block)
        /\ UNCHANGED <<wsv, last, blocks, ledger, rst, handed, twin, yac, pts, gate, os, rdb, uw>>

TwinProcessSynchronizationEvent ==
    \E event \in NodeEvents :
        /\ twin' = processSynchronizationEvent(twin, event)
        /\ UNCHANGED <<wsv, last, blocks, ledger, rst, handed, ord, yac, pts, gate, os, rdb, uw>>

TwinProcessCommittedBlock ==
    \E block \in NodeBlocks :
        /\ twin' = processCommittedBlock(twin, block)
        /\ UNCHANGED <<wsv, last, blocks, ledger, rst, handed, ord, yac, pts, gate, os, rdb, uw>>

NextNodes ==
    \/ NodeProcessSynchronizationEvent
    \/ NodeProcessCommittedBlock
    \/ TwinProcessSynchronizationEvent
    \/ TwinProcessCommittedBlock

SpecNodes == InitOrdering /\ [][NextNodes]_vars

\* the permutations a node computes for the event it processed last
PermutationsOf(node) ==
    LET size == Len(Val(node.event).ledger_peers)
    IN [kCurrentRound |-> generatePermutation(node.previous_hash, size),
        kNextRound |-> generatePermutation(node.current_hash, size)]

\* the two nodes processed the same event while holding the same hashes
SameInputs ==
    /\ ord.fresh
    /\ twin.fresh
    /\ ord.previous_hash = twin.previous_hash
    /\ ord.current_hash = twin.current_hash
    /\ ord.event = twin.event

MakerPerms == {"kCreateRole", "kAppendRole", "kDetachRole", "kCreateAccount",
               "kSetDetail"}

RoleInputs == {{"kSetDetail"}, {"kSetDetail", "kAddPeer"}, {"kRoot"}}

MakerBlock ==
    << [type |-> "CreateRole", role_name |-> "maker",
        role_permissions |-> MakerPerms],
       [type |-> "AppendRole", account_id |-> UserU, role_name |-> "maker"] >>

InitRoles ==
    /\ wsv = Replay(GenesisWsv, MakerBlock)
    /\ last = NoLast
    /\ InitIdle

DoCreateRole ==
    \E ps \in RoleInputs, a \in Creators :
        LET cmd == [type |-> "CreateRole", role_name |-> "r",
                    role_permissions |-> ps]
            result == execute(wsv, cmd, a, TRUE)
        IN /\ wsv' = Commit(wsv, result)
           /\ last' = Executed(cmd, a, TRUE, result)
           /\ UNCHANGED otherVars

DoAppendRole ==
    \E t \in {UserU, UserV}, r \in {"r", "user", "admin"},
       mode \in TransferModes :
        LET cmd == [type |-> "AppendRole", account_id |-> t, role_name |-> r]
            result == execute(wsv, cmd, mode[1], mode[2])
        IN /\ wsv' = Commit(wsv, result)
           /\ last' = Executed(cmd, mode[1], mode[2], result)
           /\ UNCHANGED otherVars

DoDetachRole ==
    \E r \in {"user", "maker", "r"}, a \in Creators :
        LET cmd == [type |-> "DetachRole", account_id |-> UserU,
                    role_name |-> r]
            result == execute(wsv, cmd, a, TRUE)
        IN /\ wsv' = Commit(wsv, result)
           /\ last' = Executed(cmd, a, TRUE, result)
           /\ UNCHANGED otherVars

NextRoles == DoCreateRole \/ DoAppendRole \/ DoDetachRole \/ DoCreateAccount

SpecRoles == InitRoles /\ [][NextRoles]_vars

\* the permissions of the role a command creates, appends or assigns as the
\* default role of the new account's domain
RequestedPermissions(db, cmd) ==
    CASE cmd.type = "CreateRole" ->
           IF "kRoot" \in cmd.role_permissions THEN RolePerms
           ELSE cmd.role_permissions
      [] cmd.type = "AppendRole" -> Val(db.role[cmd.role_name])
      [] OTHER -> Val(db.role[Val(db.domain[cmd.domain_id])])

\* C12: a validated CreateRole, AppendRole or CreateAccount succeeds only if
\* the permissions of the role it creates, appends or assigns by default are
\* all among the permissions of the creator's roles; a requested role with
\* Root is taken as the full permission set.
C12_NoPrivilegeEscalation ==
    [][(/\ last'.validate
        /\ last'.code = "OK"
        /\ last'.cmd.type \in {"CreateRole", "AppendRole", "CreateAccount"})
       => RequestedPermissions(wsv, last'.cmd)
              \subseteq accountPermissions(wsv, last'.creator)]_vars

C12_Witness ==
    /\ last.validate
    /\ last.code = "OK"
    /\ last.creator = UserU
    /\ last.cmd.type = "AppendRole"
    /\ last.cmd.role_name = "r"
    /\ "kRoot" \notin accountPermissions(wsv, UserU)

(***************************************************************************)
(* Consensus: YacInit wires the vote storage, the gate and the subscriber. *)
(* Yac::onState and YacGateImpl::processOutcome follow the specification.  *)
(***************************************************************************)
YacPeers == {"p1", "p2", "p3"}
YacOrders == {{"p1", "p2"}, YacPeers}
YacRounds == {"r1", "r2"}
YacHashes == {<<"P1", "B1">>, <<"P1", "B2">>}
ConsistencyModels == {"kBft", "kCft"}

\* a vote: round, (proposal_hash, block_hash), public key, and whether the
\* signature is one of that key over the hash
Votes == [round : YacRounds, hash : YacHashes, pubkey : YacPeers,
          signature_ok : BOOLEAN]

\* the vote-state messages: one vote, or the votes of all peers for a hash
VoteStates ==
    {{v} : v \in Votes}
    \cup {{[round |-> r, hash |-> h, pubkey |-> k, signature_ok |-> TRUE] :
              k \in YacPeers} : r \in YacRounds, h \in YacHashes}

\* getSupermajorityChecker(consistency_model): the number of votes needed
\* among all peers
supermajority(consistency_model, all) ==
    IF consistency_model = "kBft" THEN (2 * all + 3) \div 3
    ELSE (all \div 2) + 1

EmptyProposalStorage == [votes |-> {}, decided |-> Absent]

createYacMajorityChecker(initial_order, consistency_model) ==
    [pc |-> "ready",
     order |-> initial_order,
     consistency_model |-> consistency_model,
     needed |-> supermajority("kCft", Cardinality(initial_order)),
     storage |-> [r \in YacRounds |-> EmptyProposalStorage],
     delivered |-> [r \in YacRounds |-> << >>],
     last_state |-> Absent]

\* createYac: the vote storage gets the checker of the consistency model
createYac(initial_order, consistency_model) ==
    [pc |-> "ready",
     order |-> initial_order,
     consistency_model |-> consistency_model,
     needed |-> supermajority(consistency_model, Cardinality(initial_order)),
     storage |-> [r \in YacRounds |-> EmptyProposalStorage],
     delivered |-> [r \in YacRounds |-> << >>],
     last_state |-> Absent]

\* the signature is valid and the key is one of the round's peers
verifyVote(y, vote) == vote.signature_ok /\ vote.pubkey \in y.order

\* the peers whose stored votes are for a hash
VotersFor(votes, hash) == {v.pubkey : v \in {w \in votes : w.hash = hash}}

\* Yac::onState: verify, store, and answer once per round
onState(y, state) ==
    LET round == (CHOOSE v \in state : TRUE).round
        stored == y.storage[round]
        votes == stored.votes \cup {v \in state : verifyVote(y, v)}
        voters == {v.pubkey : v \in votes}
        remaining == Cardinality(y.order) - Cardinality(voters)
        committed == {h \in YacHashes :
                         Cardinality(VotersFor(votes, h)) >= y.needed}
        rejected == \A h \in YacHashes :
                       Cardinality(VotersFor(votes, h)) + remaining < y.needed
    IN IF Has(stored.decided)
       THEN [yac |-> y, answer |-> Absent]
       ELSE IF committed # {}
       THEN LET answer == [kind |-> "Commit", round |-> round,
                           hash |-> CHOOSE h \in committed : TRUE]
            IN [yac |-> [y EXCEPT !.storage[round] =
                                     [votes |-> votes,
                                      decided |-> Some(answer)]],
                answer |-> Some(answer)]
       ELSE IF rejected
       THEN LET answer == [kind |-> "Reject", round |-> round,
                           hash |-> <<"", "">>]
            IN [yac |-> [y EXCEPT !.storage[round] =
                                     [votes |-> votes,
                                      decided |-> Some(answer)]],
                answer |-> Some(answer)]
       ELSE [yac |-> [y EXCEPT !.storage[round].votes = votes],
             answer |-> Absent]

\* YacGateImpl::processOutcome: the gate object made of an answer
processOutcome(answer) == Some(answer)

\* what is kept of the last vote state: its round, how many of its votes
\* were verified, and whether it was answered
Received(y, state, answer) ==
    Some([round |-> (CHOOSE v \in state : TRUE).round,
          verified |-> Cardinality({v \in state : verifyVote(y, v)}),
          answered |-> Has(answer)])

subscriberRepeatsOutcome(y, state) ==
    LET result == onState(y, state)
        round == (CHOOSE v \in state : TRUE).round
        decided == result.yac.storage[round].decided
    IN IF ~Has(decided)
       THEN [result.yac EXCEPT
               !.last_state = Received(y, state, result.answer)]
       ELSE [result.yac EXCEPT
               !.delivered[round] = Append(@, Val(decided)),
               !.last_state = Received(y, state, result.answer)]

\* the kOnState subscriber of YacInit::subscribe
subscriber(y, state) ==
    LET result == onState(y, state)
        maybe_answer == result.answer
    IN IF ~Has(maybe_answer)
       THEN [result.yac EXCEPT
               !.last_state = Received(y, state, maybe_answer)]
       ELSE LET maybe_outcome == processOutcome(Val(maybe_answer))
            IN IF Has(maybe_outcome)
               THEN [result.yac EXCEPT
                       !.delivered[Val(maybe_outcome).round] =
                           Append(@, Val(maybe_outcome)),
                       !.last_state = Received(y, state, maybe_answer)]
               ELSE [result.yac EXCEPT
                       !.last_state = Received(y, state, maybe_answer)]

\* YacInit::initConsensusGate
InitConsensusGate ==
    /\ yac.pc = "idle"
    /\ \E peers \in YacOrders, consistency_model \in ConsistencyModels :
         yac' = createYac(peers, consistency_model)
    /\ UNCHANGED <<wsv, last, blocks, ledger, rst, handed, ord, twin, pts, gate, os, rdb, uw>>

\* a vote state arrives from the network and is notified as kOnState
OnStateEvent ==
    /\ yac.pc = "ready"
    /\ \E state \in VoteStates : yac' = subscriber(yac, state)
    /\ UNCHANGED <<wsv, last, blocks, ledger, rst, handed, ord, twin, pts, gate, os, rdb, uw>>

NextYac == InitConsensusGate \/ OnStateEvent

SpecYac == InitOrdering /\ [][NextYac]_vars

\* C13: for each consensus round at most one outcome is ever delivered to
\* the subscriber callback: no step delivers anything for a round that
\* already has its outcome, so a Commit and a Reject never both arrive.
C13_OneOutcomePerRound ==
    [][yac.pc = "ready" =>
          \A r \in YacRounds :
              /\ Len(yac'.delivered[r]) <= 1
              /\ Has(yac.storage[r].decided) =>
                     yac'.delivered[r] = yac.delivered[r]]_vars

C13_Witness ==
    /\ yac.pc = "ready"
    /\ Has(yac.last_state)
    /\ Val(yac.last_state).verified >= 1
    /\ ~Val(yac.last_state).answered
    /\ Has(yac.storage[Val(yac.last_state).round].decided)
    /\ \E r \in YacRounds : /\ Len(yac.delivered[r]) = 1
                            /\ yac.delivered[r][1].kind = "Commit"
    /\ \E r \in YacRounds : /\ Len(yac.delivered[r]) = 1
                            /\ yac.delivered[r][1].kind = "Reject"

\* the peers of the round whose validly signed stored votes are for a hash
ValidVoters(y, r, hash) ==
    {p \in y.order :
        \E v \in y.storage[r].votes :
            v.pubkey = p /\ v.hash = hash /\ v.signature_ok}

\* C14: under the BFT model a Commit(block_hash) delivered for a round has,
\* among the votes stored for that round, validly signed votes of distinct
\* peers of the peer list for that one (proposal_hash, block_hash) numbering
\* at least ceil((2N+1)/3); other votes are not stored and never count.
C14_CommitNeedsSupermajority ==
    (yac.pc = "ready" /\ yac.consistency_model = "kBft") =>
        \A r \in YacRounds :
            /\ \A v \in yac.storage[r].votes :
                   v.signature_ok /\ v.pubkey \in yac.order
            /\ \A i \in 1..Len(yac.delivered[r]) :
                   yac.delivered[r][i].kind = "Commit" =>
                       3 * Cardinality(
                               ValidVoters(yac, r, yac.delivered[r][i].hash))
                           >= 2 * Cardinality(yac.order) + 1

C14_Witness ==
    /\ yac.pc = "ready"
    /\ yac.consistency_model = "kBft"
    /\ yac.order # YacPeers
    /\ Has(yac.last_state)
    /\ Val(yac.last_state).verified = 0
    /\ \E r \in YacRounds :
           /\ Len(yac.delivered[r]) = 1
           /\ yac.delivered[r][1].kind = "Commit"
           /\ Val(yac.last_state).round = r
           /\ ~Has(yac.storage[CHOOSE q \in YacRounds : q # r].decided)

(***************************************************************************)
(* Grantable permissions: GrantPermission and RevokePermission.            *)
(***************************************************************************)
GrantInputs == {"kAddMySignatory", "kRemoveMySignatory"}
GrantTargets == {UserU, UserV}

DoGrantPermission ==
    \E g \in GrantInputs, t \in GrantTargets, a \in Creators, v \in BOOLEAN :
        LET cmd == [type |-> "GrantPermission", account_id |-> t,
                    permission_name |-> g]
            result == execute(wsv, cmd, a, v)
        IN /\ wsv' = Commit(wsv, result)
           /\ last' = Executed(cmd, a, v, result)
           /\ UNCHANGED otherVars

DoRevokePermission ==
    \E g \in GrantInputs, t \in GrantTargets, a \in Creators, v \in BOOLEAN :
        LET cmd == [type |-> "RevokePermission", account_id |-> t,
                    permission_name |-> g]
            result == execute(wsv, cmd, a, v)
        IN /\ wsv' = Commit(wsv, result)
           /\ last' = Executed(cmd, a, v, result)
           /\ UNCHANGED otherVars

NextGrants == DoGrantPermission \/ DoRevokePermission

SpecGrants == InitExecutor /\ [][NextGrants]_vars

\* the command gets past the checks made under validation
PassesGrantChecks(db, l) ==
    ~l.validate
    \/ (/\ IsSet(accountPermissions(db, l.creator),
                 permissionFor(l.cmd.permission_name))
        /\ AccountExists(db, l.cmd.account_id))

\* C15: GrantPermission of a permission already set for (account, creator)
\* fails, with kPermissionIsAlreadySet when it gets past the checks made
\* under validation; RevokePermission of one not set fails; both leave the
\* stored grantable permissions as they were; and RevokePermission after a
\* successful GrantPermission of the same permission by the same creator for
\* the same account gives back the permission set held before the grant.
C15_GrantRevoke ==
    [][LET cmd == last'.cmd
           held == GrantedSet(wsv, cmd.account_id, last'.creator)
       IN /\ (cmd.type = "GrantPermission" /\ cmd.permission_name \in held)
              => /\ last'.code # "OK"
                 /\ PassesGrantChecks(wsv, last') =>
                        last'.code = "kPermissionIsAlreadySet"
                 /\ wsv'.grantable = wsv.grantable
          /\ (cmd.type = "RevokePermission" /\ cmd.permission_name \notin held)
              => /\ last'.code # "OK"
                 /\ wsv'.grantable = wsv.grantable
          /\ (cmd.type = "GrantPermission" /\ last'.code = "OK")
              => \A v \in BOOLEAN :
                    LET revoke == [cmd EXCEPT !.type = "RevokePermission"]
                        result == execute(wsv', revoke, last'.creator, v)
                    IN /\ v = last'.validate => result.code = "OK"
                       /\ result.code = "OK" =>
                              GrantedSet(Commit(wsv', result),
                                         cmd.account_id, last'.creator) = held
      ]_vars

\* a permission was revoked from a pair that keeps another one
C15_Witness ==
    /\ last.cmd.type = "RevokePermission"
    /\ last.code = "OK"
    /\ last.validate
    /\ GrantedSet(wsv, last.cmd.account_id, last.creator) # {}

(***************************************************************************)
(* Account details: SetAccountDetail and CompareAndSetAccountDetail.       *)
(***************************************************************************)
DetailTargets == {UserU, UserV}
DetailModes == {<<Admin, TRUE>>, <<UserU, TRUE>>, <<UserU, FALSE>>,
                <<NoCreator, FALSE>>}

DoSetAccountDetail ==
    \E t \in DetailTargets, k \in DetailKeys, x \in DetailValues,
       m \in DetailModes :
        LET cmd == [type |-> "SetAccountDetail", account_id |-> t,
                    key |-> k, value |-> x]
            result == execute(wsv, cmd, m[1], m[2])
        IN /\ wsv' = Commit(wsv, result)
           /\ last' = Executed(cmd, m[1], m[2], result)
           /\ UNCHANGED otherVars

DoCompareAndSetAccountDetail ==
    \E t \in {UserU}, k \in DetailKeys, x \in DetailValues,
       old \in {Absent} \cup {Some(y) : y \in DetailValues},
       check_empty \in BOOLEAN, m \in DetailModes :
        LET cmd == [type |-> "CompareAndSetAccountDetail", account_id |-> t,
                    key |-> k, value |-> x, old_value |-> old,
                    check_empty |-> check_empty]
            result == execute(wsv, cmd, m[1], m[2])
        IN /\ wsv' = Commit(wsv, result)
           /\ last' = Executed(cmd, m[1], m[2], result)
           /\ UNCHANGED otherVars

NextDetails == DoSetAccountDetail \/ DoCompareAndSetAccountDetail

SpecDetails == InitExecutor /\ [][NextDetails]_vars

\* the writer a detail command of a creator writes under
DetailWriter(creator) ==
    IF creator = NoCreator THEN <<"genesis", "">> ELSE creator

\* the errors of the checks made before the detail is looked up
DetailCheckErrors == {"accountPermissions", "kNoPermissions", "forAccount"}

\* C16: a CompareAndSetAccountDetail that gets past its permission and
\* account checks writes the new value exactly when the stored value for
\* (account, writer, key) exists and equals oldValue, or no value is stored
\* and (checkEmpty is off, or oldValue is also absent); otherwise it returns
\* kIncorrectOldValue and the details and details_count stay as they were.
C16_CompareAndSet ==
    [][LET cmd == last'.cmd
           key == <<cmd.account_id, DetailWriter(last'.creator), cmd.key>>
           stored == wsv.detail[key]
           matches ==
               \/ /\ Has(stored)
                  /\ Has(cmd.old_value)
                  /\ Val(stored) = Val(cmd.old_value)
               \/ /\ ~Has(stored)
                  /\ (~cmd.check_empty \/ ~Has(cmd.old_value))
       IN (/\ cmd.type = "CompareAndSetAccountDetail"
           /\ last'.code \notin DetailCheckErrors)
          => IF matches
             THEN /\ last'.code = "OK"
                  /\ wsv'.detail[key] = Some(cmd.value)
             ELSE /\ last'.code = "kIncorrectOldValue"
                  /\ wsv'.detail = wsv.detail
                  /\ wsv'.details_count = wsv.details_count]_vars

\* a check for an empty old value was refused: nothing stored, oldValue given
C16_Witness ==
    /\ last.cmd.type = "CompareAndSetAccountDetail"
    /\ last.code = "kIncorrectOldValue"
    /\ last.cmd.check_empty
    /\ Has(last.cmd.old_value)
    /\ ~Has(wsv.detail[<<last.cmd.account_id, DetailWriter(last.creator),
                         last.cmd.key>>])
    /\ wsv.details_count[last.cmd.account_id] = Some(1)

\* the (writer, key) pairs with a stored detail of an account
DetailEntries(db, a) ==
    {e \in Writers \X DetailKeys : Has(db.detail[<<a, e[1], e[2]>>])}

DetailsCount(db, a) ==
    IF Has(db.details_count[a]) THEN Val(db.details_count[a]) ELSE 0

DetailCommands == {"SetAccountDetail", "CompareAndSetAccountDetail"}

\* C17: for every account details_count is the number of (writer, key)
\* pairs with a stored detail, before and after every SetAccountDetail and
\* CompareAndSetAccountDetail: a first write of a pair adds one, an overwrite
\* adds nothing, and a command with an empty creator writes under "genesis".
C17_DetailsCount ==
    [][LET cmd == last'.cmd
           a == cmd.account_id
           entry == <<DetailWriter(last'.creator), cmd.key>>
       IN /\ \A b \in AccountIds :
                 /\ DetailsCount(wsv, b) = Cardinality(DetailEntries(wsv, b))
                 /\ DetailsCount(wsv', b) =
                        Cardinality(DetailEntries(wsv', b))
          /\ (cmd.type \in DetailCommands /\ last'.code = "OK")
              => /\ DetailEntries(wsv', a) =
                        DetailEntries(wsv, a) \cup {entry}
                 /\ DetailsCount(wsv', a) =
                        DetailsCount(wsv, a)
                        + (IF entry \in DetailEntries(wsv, a) THEN 0 ELSE 1)
                 /\ last'.creator = NoCreator => entry[1] = <<"genesis", "">>
      ]_vars

\* three writers, one of them "genesis", hold a detail of one account
C17_Witness ==
    /\ last.cmd.type \in DetailCommands
    /\ last.code = "OK"
    /\ \E a \in AccountIds :
           /\ DetailsCount(wsv, a) = 3
           /\ Has(wsv.detail[<<a, <<"genesis", "">>, "key">>])

\* the assets an account has a stored balance entry for
BalanceEntries(db, a) == {s \in AssetIds : Has(db.account_asset[<<a, s>>])}

AssetSize(db, a) == IF Has(db.asset_size[a]) THEN Val(db.asset_size[a]) ELSE 0

\* C18: for every account account_asset_size is the number of assets the
\* account has a stored balance entry for, after any sequence of
\* AddAssetQuantity, SubtractAssetQuantity and TransferAsset.
C18_AssetSizeMatches ==
    \A a \in AccountIds : AssetSize(wsv, a) = Cardinality(BalanceEntries(wsv, a))

(***************************************************************************)
(* Precisions: SubtractAssetQuantity with amounts coarser than, equal to   *)
(* and finer than the precision of the asset.                              *)
(***************************************************************************)
PrecisionInputs == {Amount(0, 0), Amount(1, 0), Amount(1, 1), Amount(2, 1),
                    Amount(1, 2), Amount(0, 2)}

DoSubtractAnyPrecision ==
    \E m \in PrecisionInputs, a \in Creators, v \in BOOLEAN :
        LET cmd == [type |-> "SubtractAssetQuantity", asset_id |-> Coin,
                    amount |-> m]
            result == execute(wsv, cmd, a, v)
        IN /\ wsv' = Commit(wsv, result)
           /\ last' = Executed(cmd, a, v, result)
           /\ UNCHANGED otherVars

NextPrecisions == DoAddAssetQuantity \/ DoSubtractAnyPrecision

SpecPrecisions == InitExecutor /\ [][NextPrecisions]_vars

\* the precision the asset of a command was created with
AssetPrecision(db, cmd) == Val(db.asset[cmd.asset_id])

\* the command gets past the permission check made under validation
PassesSubtractChecks(db, l) ==
    ~l.validate
    \/ checkDomainPermissions(l.cmd.asset_id[2], AccountDomain(l.creator),
                              accountPermissions(db, l.creator),
                              "kSubtractAssetQty", "kSubtractDomainAssetQty")

\* C19 as stated: SubtractAssetQuantity fails with error code 3 and leaves
\* the creator's balance unchanged whenever the precision of the amount is
\* not the precision of the asset, validated or not.
C19_AnyMismatchRejected ==
    [][(/\ last'.cmd.type = "SubtractAssetQuantity"
        /\ PassesSubtractChecks(wsv, last')
        /\ last'.cmd.amount.prec # AssetPrecision(wsv, last'.cmd))
       => (/\ last'.code = "3"
           /\ wsv'.account_asset = wsv.account_asset)]_vars

\* C19: SubtractAssetQuantity that gets past its permission check fails
\* with error code 3 and leaves the balances unchanged whenever the
\* precision of the amount is greater than the precision of the asset,
\* validated or not; it never returns error code 3 otherwise.
C19_FinerAmountRejected ==
    [][(/\ last'.cmd.type = "SubtractAssetQuantity"
        /\ PassesSubtractChecks(wsv, last'))
       => IF last'.cmd.amount.prec > AssetPrecision(wsv, last'.cmd)
          THEN /\ last'.code = "3"
               /\ wsv'.account_asset = wsv.account_asset
          ELSE last'.code # "3"]_vars

\* an amount finer than the asset was refused while a balance is stored
C19_Witness ==
    /\ last.cmd.type = "SubtractAssetQuantity"
    /\ last.code = "3"
    /\ last.cmd.amount.prec > AssetPrecision(wsv, last.cmd)
    /\ Has(wsv.account_asset[<<last.creator, Coin>>])
    /\ Val(wsv.account_asset[<<last.creator, Coin>>]).val > 0

(***************************************************************************)
(* Transfers with a description, under the max_description_size setting.   *)
(***************************************************************************)
MaxDescriptionSize == 2

DoSetSettingValue ==
    \E x \in SettingValues :
        LET cmd == [type |-> "SetSettingValue",
                    key |-> "max_description_size", value |-> x]
            result == execute(wsv, cmd, Admin, FALSE)
        IN /\ wsv' = Commit(wsv, result)
           /\ last' = Executed(cmd, Admin, FALSE, result)
           /\ UNCHANGED otherVars

DoTransferDescribed ==
    \E src \in Creators, dst \in Creators,
       m \in {Amount(1, 1)}, n \in 0..MaxDescriptionSize,
       mode \in TransferModes :
        LET cmd == [type |-> "TransferAsset", src_account_id |-> src,
                    dest_account_id |-> dst, asset_id |-> Coin,
                    amount |-> m, description_size |-> n]
            result == execute(wsv, cmd, mode[1], mode[2])
        IN /\ wsv' = Commit(wsv, result)
           /\ last' = Executed(cmd, mode[1], mode[2], result)
           /\ UNCHANGED otherVars

DoIssue ==
    \E a \in Creators :
        LET cmd == [type |-> "AddAssetQuantity", asset_id |-> Coin,
                    amount |-> Amount(2, 1)]
            result == execute(wsv, cmd, a, FALSE)
        IN /\ wsv' = Commit(wsv, result)
           /\ last' = Executed(cmd, a, FALSE, result)
           /\ UNCHANGED otherVars

NextTransfers == DoSetSettingValue \/ DoTransferDescribed \/ DoIssue

SpecTransfers == InitExecutor /\ [][NextTransfers]_vars

\* the errors of the checks made before the description is measured
TransferCheckErrors == {"accountPermissions", "kNoPermissions",
                        "forAccount", "forAsset"}

\* C20: with validation and the max_description_size setting present, a
\* TransferAsset whose description is longer than the setting fails, with
\* kInvalidFieldSize when it gets past the checks made before, and changes
\* no balance and no account_asset_size; a description no longer than the
\* setting is never refused with kInvalidFieldSize.
C20_DescriptionSize ==
    [][LET cmd == last'.cmd
           max_size == wsv.setting["max_description_size"]
       IN (/\ cmd.type = "TransferAsset"
           /\ last'.validate
           /\ Has(max_size))
          => IF cmd.description_size > decode(Val(max_size))
             THEN /\ last'.code # "OK"
                  /\ last'.code \notin TransferCheckErrors =>
                         last'.code = "kInvalidFieldSize"
                  /\ wsv'.account_asset = wsv.account_asset
                  /\ wsv'.asset_size = wsv.asset_size
             ELSE last'.code # "kInvalidFieldSize"]_vars

\* a transfer the source could pay was refused for its description
C20_Witness ==
    /\ last.cmd.type = "TransferAsset"
    /\ last.validate
    /\ last.code = "kInvalidFieldSize"
    /\ wsv.setting["max_description_size"] = Some("1")
    /\ last.cmd.description_size = 2
    /\ Has(wsv.account_asset[<<last.cmd.src_account_id, Coin>>])
    /\ Val(wsv.account_asset[<<last.cmd.src_account_id, Coin>>]).val
           >= last.cmd.amount.val

(***************************************************************************)
(* Account creation among commands of replayed blocks, which are executed  *)
(* without validation on the account that may not exist yet.               *)
(***************************************************************************)
ReplayedOnAccount(t) ==
    {[type |-> "AddSignatory", account_id |-> t, pubkey |-> "k2"],
     [type |-> "RemoveSignatory", account_id |-> t, pubkey |-> "k1"],
     [type |-> "AppendRole", account_id |-> t, role_name |-> "admin"],
     [type |-> "DetachRole", account_id |-> t, role_name |-> "user"],
     [type |-> "SetQuorum", account_id |-> t, new_quorum |-> 0],
     [type |-> "CreateAccount", account_name |-> t[1], domain_id |-> t[2],
      pubkey |-> "k2"]}

DoReplayed ==
    \E cmd \in ReplayedOnAccount(UserV) :
        LET result == execute(wsv, cmd, Admin, FALSE)
        IN /\ wsv' = Commit(wsv, result)
           /\ last' = Executed(cmd, Admin, FALSE, result)
           /\ UNCHANGED otherVars

NextCreation == DoCreateAccount \/ DoReplayed \/ DoAddSignatory

SpecCreation == InitExecutor /\ [][NextCreation]_vars

\* C21: a successful validated CreateAccount leaves the account with quorum
\* 1, with exactly the one public key given, in lower case, as its
\* signatories, and with the default role of the domain as its only role.
C21_CreatedAccount ==
    [][(/\ last'.cmd.type = "CreateAccount"
        /\ last'.validate
        /\ last'.code = "OK")
       => LET cmd == last'.cmd
              account == <<cmd.account_name, cmd.domain_id>>
          IN /\ wsv'.quorum[account] = Some(1)
             /\ wsv'.signatory[account] =
                    {IF cmd.pubkey = "K1" THEN "k1" ELSE cmd.pubkey}
             /\ wsv'.account_role[account] = {Val(wsv.domain[cmd.domain_id])}
      ]_vars

\* an account was created with a key given in upper case
C21_Witness ==
    /\ last.cmd.type = "CreateAccount"
    /\ last.validate
    /\ last.code = "OK"
    /\ last.cmd.pubkey = "K1"
    /\ wsv.signatory[UserV] = {"k1"}
    /\ wsv.account_role[UserV] # {}

\* C33: a command that returns an error has made no write: the store the
\* handler leaves behind is the store it was given, so that a failed command
\* changes nothing even without the rollback to the caller's savepoint.
C33_FailedCommandWritesNothing == last.code # "OK" => ~last.dirty

\* the heights handed to the mutable storage so far
HandedHeights == {handed[i] : i \in 1..Len(handed)}

\* a validator rejects the block stored at a height
ValidatorRejects(h) == ~blocks[h].proto_ok \/ ~blocks[h].interface_ok

\* C22: the block at height 1 is handed to the mutable storage whatever the
\* proto and the interface validator say of it; a block at a height above 1
\* is handed only when both accept it; and a pass in which a validator
\* rejects a block ends in an error with neither that block nor a later
\* one handed over.
C22_GenesisNotValidated ==
    [][/\ \A h \in HandedHeights :
              h > 1 => (blocks[h].proto_ok /\ blocks[h].interface_ok)
       /\ \A i \in 1..Len(handed') :
              handed'[i] > 1 => (/\ blocks'[handed'[i]].proto_ok
                                 /\ blocks'[handed'[i]].interface_ok)
       /\ (PassStep /\ checkTopBlock)
           => /\ (/\ startingHeight = 1
                  /\ rst.last_block_in_storage >= 1
                  /\ getBlockOk(1)
                  /\ blocks[1].height = 1)
                 => /\ Len(handed') > Len(handed)
                    /\ handed'[Len(handed) + 1] = 1
              /\ \A h \in startingHeight..rst.last_block_in_storage :
                     (/\ h > 1
                      /\ getBlockOk(h)
                      /\ blocks[h].height = h
                      /\ ValidatorRejects(h))
                     => /\ rst'.res = "error"
                        /\ rst'.pc = "done"
                        /\ ledger' = ledger
                        /\ \A i \in Len(handed) + 1..Len(handed') :
                               handed'[i] < h]_vars

\* a genesis block that both validators would reject was handed over with
\* the block after it, and the pass ended at a third block that the
\* interface validator rejects
C22_Witness ==
    /\ rst.pc = "done"
    /\ rst.res = "error"
    /\ Len(blocks) = 3
    /\ handed = <<1, 2>>
    /\ ~blocks[1].proto_ok
    /\ blocks[3].proto_ok
    /\ ~blocks[3].interface_ok
    /\ blocks[3].readable

(***************************************************************************)
(* The pending transaction storage (MST).  The storage keeps, for every    *)
(* creator, the batches that still wait for signatures, in the order they  *)
(* arrived.  The fixture of the storage tests gives the batches, accounts  *)
(* and page sizes; the storage itself follows the pagination guarantees    *)
(* of its interface.                                                       *)
(***************************************************************************)

\* txBuilder(..., creator): not signed yet; the hash does not cover signatures
Tx(hash, creator) == [hash |-> hash, creator |-> creator, signatures |-> 0]

\* addSignatures(batch, 0, signatures...): the first transaction of the
\* batch carries n signatures afterwards
addSignatures(batch, n) == [batch EXCEPT ![1].signatures = n]

\* twoTransactionsBatch(): one transaction of alice and one of bob, the
\* first signed once; every call makes new transactions (getUniqueTime)
twoTransactionsBatch(n) ==
    IF n = 1
    THEN addSignatures(<<Tx("a1", "alice@iroha"), Tx("b1", "bob@iroha")>>, 1)
    ELSE addSignatures(<<Tx("a2", "alice@iroha"), Tx("b2", "bob@iroha")>>, 1)

\* makeTestBatch(txBuilder(3, getUniqueTime(), 3, "alice@iroha")), signed once
aliceBatch == addSignatures(<<Tx("a3", "alice@iroha")>>, 1)

TestBatches == {twoTransactionsBatch(1), twoTransactionsBatch(2), aliceBatch}

\* the numbers of signatures a batch of an MST state carries in the tests
SignatureCounts == {1, 2}

\* the batches MST states carry, and the fully signed ones removeBatch sees
SignedBatches == {addSignatures(b, n) : b \in TestBatches, n \in SignatureCounts}

PreparedBatches == {addSignatures(b, 3) : b \in TestBatches}

\* batch->transactions().front()->hash()
firstHash(batch) == batch[1].hash

\* batch->transactions().size()
batchSize(batch) == Len(batch)

batchCreators(batch) == {batch[i].creator : i \in 1..Len(batch)}

\* the hashes of the transactions of a batch, in order
batchHashes(batch) == [i \in 1..Len(batch) |-> batch[i].hash]

\* emptyState() += batches: what iterateBatches visits, in some order
MstStates ==
    {<<b>> : b \in SignedBatches}
    \cup UNION {{<<b, c>> : c \in {x \in SignedBatches :
                                       firstHash(x) # firstHash(b)}} :
                 b \in SignedBatches}

\* the positions of the batch with that first transaction hash (at most one)
indexOf(batches, hash) == {i \in 1..Len(batches) : firstHash(batches[i]) = hash}

\* an update that appends every batch it is given
upsertBatchAppendsAlways(storage, batch) ==
    [a \in PendingAccounts |->
        IF a \notin batchCreators(batch) THEN storage[a]
        ELSE [batches |-> Append(storage[a].batches, batch),
              all_transactions_quantity |->
                  storage[a].all_transactions_quantity + batchSize(batch)]]

\* an update that files a batch under the creator of its first transaction only
upsertBatchFirstCreatorOnly(storage, batch) ==
    [a \in PendingAccounts |->
        IF a # batch[1].creator THEN storage[a]
        ELSE IF indexOf(storage[a].batches, firstHash(batch)) = {}
        THEN [batches |-> Append(storage[a].batches, batch),
              all_transactions_quantity |->
                  storage[a].all_transactions_quantity + batchSize(batch)]
        ELSE [storage[a] EXCEPT !.batches =
                 [i \in 1..Len(storage[a].batches) |->
                     IF firstHash(storage[a].batches[i]) = firstHash(batch)
                     THEN batch ELSE storage[a].batches[i]]]]

\* one batch of an update: a new batch is appended for each of its creators,
\* a batch already stored is replaced where it stands
upsertBatch(storage, batch) ==
    [a \in PendingAccounts |->
        IF a \notin batchCreators(batch) THEN storage[a]
        ELSE IF indexOf(storage[a].batches, firstHash(batch)) = {}
        THEN [batches |-> Append(storage[a].batches, batch),
              all_transactions_quantity |->
                  storage[a].all_transactions_quantity + batchSize(batch)]
        ELSE [storage[a] EXCEPT !.batches =
                 [i \in 1..Len(storage[a].batches) |->
                     IF firstHash(storage[a].batches[i]) = firstHash(batch)
                     THEN batch ELSE storage[a].batches[i]]]]

RECURSIVE updatedBatchesHandler(_, _)
\* merges an incoming MST state into the storage, batch by batch
updatedBatchesHandler(storage, state) ==
    IF state = <<>> THEN storage
    ELSE updatedBatchesHandler(upsertBatch(storage, Head(state)), Tail(state))

\* a removal that needs the stored copy to carry the very same signatures
removeBatchSameSignatures(storage, batch) ==
    [a \in PendingAccounts |->
        IF a \notin batchCreators(batch) THEN storage[a]
        ELSE IF \A i \in 1..Len(storage[a].batches) : storage[a].batches[i] # batch
        THEN storage[a]
        ELSE [batches |-> SelectSeq(storage[a].batches, LAMBDA b : b # batch),
              all_transactions_quantity |->
                  storage[a].all_transactions_quantity - batchSize(batch)]]

\* drops the batch from the lists of all its creators
removeBatch(storage, batch) ==
    [a \in PendingAccounts |->
        IF a \notin batchCreators(batch) THEN storage[a]
        ELSE IF indexOf(storage[a].batches, firstHash(batch)) = {}
        THEN storage[a]
        ELSE [batches |-> SelectSeq(storage[a].batches,
                              LAMBDA b : firstHash(b) # firstHash(batch)),
              all_transactions_quantity |->
                  storage[a].all_transactions_quantity - batchSize(batch)]]

RECURSIVE pageEndStrict(_, _, _)
\* a page that takes a batch only when space is left over after it
pageEndStrict(batches, i, remaining_space) ==
    IF i > Len(batches) THEN i
    ELSE IF remaining_space > batchSize(batches[i])
    THEN pageEndStrict(batches, i + 1, remaining_space - batchSize(batches[i]))
    ELSE i

RECURSIVE pageEnd(_, _, _)
\* the position of the first batch from i on that no longer fits the page
pageEnd(batches, i, remaining_space) ==
    IF i > Len(batches) THEN i
    ELSE IF remaining_space >= batchSize(batches[i])
    THEN pageEnd(batches, i + 1, remaining_space - batchSize(batches[i]))
    ELSE i

RECURSIVE pageTransactions(_, _, _)
\* the transactions of the batches at positions i .. j-1, batch after batch
pageTransactions(batches, i, j) ==
    IF i >= j THEN <<>>
    ELSE batches[i] \o pageTransactions(batches, i + 1, j)

NotFound ==
    [result |-> "kNotFound", transactions |-> <<>>, all_transactions_size |-> 0,
     next_batch_info |-> {}]

BatchInfo(batch) == [first_tx_hash |-> firstHash(batch), batch_size |-> batchSize(batch)]

\* a query that reports the size of the page as the size of everything
getPendingTransactionsCountsPage(storage, account_id, page_size, first_tx_hash) ==
    LET batches == storage[account_id].batches
        found == UNION {indexOf(batches, h) : h \in first_tx_hash}
    IN IF first_tx_hash # {} /\ found = {} THEN NotFound
       ELSE IF batches = <<>> THEN EmptyResponse
       ELSE LET begin == IF first_tx_hash = {} THEN 1
                         ELSE CHOOSE i \in found : TRUE
                end == pageEnd(batches, begin, page_size)
            IN [result |-> "value",
                transactions |-> pageTransactions(batches, begin, end),
                all_transactions_size |->
                    Len(pageTransactions(batches, begin, end)),
                next_batch_info |->
                    IF end <= Len(batches) THEN {BatchInfo(batches[end])}
                    ELSE {}]

\* a query that starts behind the batch the start hash names
getPendingTransactionsAfterNamed(storage, account_id, page_size, first_tx_hash) ==
    LET batches == storage[account_id].batches
        found == UNION {indexOf(batches, h) : h \in first_tx_hash}
    IN IF first_tx_hash # {} /\ found = {} THEN NotFound
       ELSE IF batches = <<>> THEN EmptyResponse
       ELSE LET begin == IF first_tx_hash = {} THEN 1
                         ELSE (CHOOSE i \in found : TRUE) + 1
                end == pageEnd(batches, begin, page_size)
            IN [result |-> "value",
                transactions |-> pageTransactions(batches, begin, end),
                all_transactions_size |->
                    storage[account_id].all_transactions_quantity,
                next_batch_info |->
                    IF end <= Len(batches) THEN {BatchInfo(batches[end])}
                    ELSE {}]

\* a query that starts at the first batch when the start hash is unknown
getPendingTransactionsAnyStart(storage, account_id, page_size, first_tx_hash) ==
    LET batches == storage[account_id].batches
        found == UNION {indexOf(batches, h) : h \in first_tx_hash}
    IN IF batches = <<>> THEN EmptyResponse
       ELSE LET begin == IF found = {} THEN 1
                         ELSE CHOOSE i \in found : TRUE
                end == pageEnd(batches, begin, page_size)
            IN [result |-> "value",
                transactions |-> pageTransactions(batches, begin, end),
                all_transactions_size |->
                    storage[account_id].all_transactions_quantity,
                next_batch_info |->
                    IF end <= Len(batches) THEN {BatchInfo(batches[end])}
                    ELSE {}]

\* one page of the pending transactions of an account; first_tx_hash is {}
\* for std::nullopt and {hash} otherwise
getPendingTransactions(storage, account_id, page_size, first_tx_hash) ==
    LET batches == storage[account_id].batches
        found == UNION {indexOf(batches, h) : h \in first_tx_hash}
    IN IF first_tx_hash # {} /\ found = {} THEN NotFound
       ELSE IF batches = <<>> THEN EmptyResponse
       ELSE LET begin == IF first_tx_hash = {} THEN 1
                         ELSE CHOOSE i \in found : TRUE
                end == pageEnd(batches, begin, page_size)
            IN [result |-> "value",
                transactions |-> pageTransactions(batches, begin, end),
                all_transactions_size |->
                    storage[account_id].all_transactions_quantity,
                next_batch_info |->
                    IF end <= Len(batches) THEN {BatchInfo(batches[end])}
                    ELSE {}]

MaxPageSize == 5

\* kPageSize of the tests: from 1 up to more than any account has pending
PageSizes == 1..MaxPageSize

\* the hashes a query names: the first ones of all batches and one that
\* is never first
StartHashes == {firstHash(b) : b \in TestBatches} \cup {"b1"}

pendingRest == <<wsv, last, blocks, ledger, rst, handed, ord, twin, yac, gate, os, rdb, uw>>

\* storage_->updatedBatchesHandler(state)
DoUpdatedBatches ==
    \E state \in MstStates :
        /\ pts' = [pts EXCEPT
                     !.storage_ = updatedBatchesHandler(pts.storage_, state),
                     !.op = [type |-> "updatedBatchesHandler", state |-> state],
                     !.response = EmptyResponse]
        /\ UNCHANGED pendingRest

\* storage_->removeBatch(batch)
DoRemoveBatch ==
    \E batch \in SignedBatches \cup PreparedBatches :
        /\ pts' = [pts EXCEPT
                     !.storage_ = removeBatch(pts.storage_, batch),
                     !.op = [type |-> "removeBatch", batch |-> batch,
                             held_by |-> {a \in PendingAccounts :
                                 \E i \in 1..Len(pts.storage_[a].batches) :
                                     batchHashes(pts.storage_[a].batches[i])
                                         = batchHashes(batch)}],
                     !.response = EmptyResponse]
        /\ UNCHANGED pendingRest

\* storage_->getPendingTransactions(creator, kPageSize, first_tx_hash)
DoGetPendingTransactions ==
    \E creator \in PendingAccounts, kPageSize \in PageSizes,
       first_tx_hash \in {{}} \cup {{h} : h \in StartHashes} :
        /\ pts' = [pts EXCEPT
                     !.op = [type |-> "getPendingTransactions",
                             creator |-> creator, page_size |-> kPageSize,
                             first_tx_hash |-> first_tx_hash],
                     !.response = getPendingTransactions(
                         pts.storage_, creator, kPageSize, first_tx_hash)]
        /\ UNCHANGED pendingRest

InitPending ==
    /\ wsv = EmptyWsv
    /\ last = NoLast
    /\ InitIdle

NextPending == DoUpdatedBatches \/ DoRemoveBatch \/ DoGetPendingTransactions

SpecPending == InitPending /\ [][NextPending]_vars

RECURSIVE concatBatches(_)
\* the transactions of a sequence of batches, one batch after the other
concatBatches(batches) ==
    IF batches = <<>> THEN <<>>
    ELSE Head(batches) \o concatBatches(Tail(batches))

\* the last operation was a query that was answered with a page
Answered ==
    /\ pts.op.type = "getPendingTransactions"
    /\ pts.response.result = "value"

\* the batches stored for the account of the last query
QueriedBatches == pts.storage_[pts.op.creator].batches

\* where the page of the last query begins: at the first batch, or at the
\* batch whose first transaction has the hash the query names
QueriedBegin ==
    IF pts.op.first_tx_hash = {} THEN 1
    ELSE CHOOSE i \in 1..Len(QueriedBatches) :
             {firstHash(QueriedBatches[i])} = pts.op.first_tx_hash

\* C23: a page is made of whole batches in insertion order from the first
\* batch of the creator (or the batch named by the start hash): it is the
\* longest run of consecutive batches whose transactions fit into pageSize,
\* and next_batch_info is present exactly when a batch of the creator follows
\* the run, naming that batch's first transaction hash and size.  A page
\* smaller than the first batch is empty with next_batch_info set; a page as
\* large as the only batch returns it without next_batch_info.
C23_WholeBatchPages ==
    Answered =>
        /\ \E n \in 0..Len(QueriedBatches) :
             LET after == QueriedBegin + n
             IN /\ after - 1 <= Len(QueriedBatches)
                /\ pts.response.transactions =
                       concatBatches(SubSeq(QueriedBatches, QueriedBegin, after - 1))
                /\ Len(pts.response.transactions) <= pts.op.page_size
                /\ after <= Len(QueriedBatches) =>
                       Len(pts.response.transactions)
                           + Len(QueriedBatches[after]) > pts.op.page_size
                /\ pts.response.next_batch_info =
                       IF after <= Len(QueriedBatches)
                       THEN {[first_tx_hash |-> QueriedBatches[after][1].hash,
                              batch_size |-> Len(QueriedBatches[after])]}
                       ELSE {}
        /\ (QueriedBatches # <<>>
            /\ pts.op.page_size < Len(QueriedBatches[QueriedBegin])) =>
               /\ pts.response.transactions = <<>>
               /\ pts.response.next_batch_info # {}
        /\ (Len(QueriedBatches) = 1
            /\ pts.op.page_size = Len(QueriedBatches[1])) =>
               /\ pts.response.transactions = QueriedBatches[1]
               /\ pts.response.next_batch_info = {}

\* BatchAndAHalfPageSize: two batches of two, a page of three returns the
\* first batch and names the second
C23_Witness ==
    /\ Answered
    /\ pts.op.creator = "bob@iroha"
    /\ pts.op.first_tx_hash = {}
    /\ pts.op.page_size = 3
    /\ Len(QueriedBatches) = 2
    /\ pts.response.transactions = QueriedBatches[1]
    /\ pts.response.next_batch_info =
           {[first_tx_hash |-> "a2", batch_size |-> 2]}

\* every batch the storage holds, under whichever account
StoredBatches ==
    UNION {{pts.storage_[a].batches[i] : i \in 1..Len(pts.storage_[a].batches)} :
           a \in PendingAccounts}

\* the stored batches that have a transaction created by the account
BatchesOf(account_id) == {B \in StoredBatches : account_id \in batchCreators(B)}

RECURSIVE transactionsIn(_)
\* the number of transactions of a set of batches
transactionsIn(batches) ==
    IF batches = {} THEN 0
    ELSE LET B == CHOOSE x \in batches : TRUE
         IN Len(B) + transactionsIn(batches \ {B})

\* the transactions of the batch stand together, in order, in the sequence
IsRun(txs, batch) ==
    \E k \in 0..(Len(txs) - Len(batch)) :
        SubSeq(txs, k + 1, k + Len(batch)) = batch

\* the last query asked for the first page and the page was large enough
\* for everything the account has a part in
AnsweredLargePage ==
    /\ Answered
    /\ pts.op.first_tx_hash = {}
    /\ pts.op.page_size >= transactionsIn(BatchesOf(pts.op.creator))

\* C24: a stored batch is visible to exactly its creators: a large page
\* returns all its transactions in order to every creator of one of its
\* transactions and none of them to other accounts, and an account that
\* created no stored transaction gets the empty response (no transactions,
\* all_transactions_size 0, no next_batch_info).
C24_VisibleToCreators ==
    AnsweredLargePage =>
        /\ \A B \in StoredBatches :
             /\ pts.op.creator \in batchCreators(B) =>
                    IsRun(pts.response.transactions, B)
             /\ pts.op.creator \notin batchCreators(B) =>
                    \A i \in 1..Len(B), j \in 1..Len(pts.response.transactions) :
                        pts.response.transactions[j].hash # B[i].hash
        /\ BatchesOf(pts.op.creator) = {} =>
               /\ pts.response.transactions = <<>>
               /\ pts.response.all_transactions_size = 0
               /\ pts.response.next_batch_info = {}

\* bob asks while a batch of alice and bob and a batch of alice alone are
\* stored: bob gets the two transactions of the shared batch and no more
C24_Witness ==
    /\ AnsweredLargePage
    /\ pts.op.creator = "bob@iroha"
    /\ \E n \in SignatureCounts :
         /\ StoredBatches = {twoTransactionsBatch(1), addSignatures(aliceBatch, n)}
    /\ pts.response.transactions = twoTransactionsBatch(1)

\* C25: all_transactions_size of a response is the number of transactions
\* of all batches stored for the creator, whatever the page size, the start
\* hash and the content of the page are.
C25_AllTransactionsSize ==
    Answered =>
        /\ pts.response.all_transactions_size = Len(concatBatches(QueriedBatches))
        /\ pts.response.all_transactions_size = transactionsIn(BatchesOf(pts.op.creator))

\* StartFromTheSecondBatch: the page holds the two transactions of the
\* second batch, the size reported is that of both batches
C25_Witness ==
    /\ Answered
    /\ pts.op.creator = "alice@iroha"
    /\ pts.op.first_tx_hash = {"a2"}
    /\ pts.op.page_size = 2
    /\ Len(QueriedBatches) = 2
    /\ firstHash(QueriedBatches[2]) = "a2"
    /\ Len(pts.response.transactions) = 2
    /\ pts.response.all_transactions_size = 4

\* the last operation was a query
Queried == pts.op.type = "getPendingTransactions"

\* the batches of the account of the last query that begin with the
\* transaction the query names
NamedBatches ==
    {B \in BatchesOf(pts.op.creator) : {firstHash(B)} = pts.op.first_tx_hash}

\* C26: a query with a start hash is answered NotFound exactly when no
\* batch stored for that creator begins with a transaction of that hash,
\* also when such a batch is stored for other creators only; otherwise the
\* page starts at that batch.  A query without a start hash is never
\* answered NotFound.
C26_NotFound ==
    Queried =>
        /\ pts.op.first_tx_hash = {} => pts.response.result = "value"
        /\ pts.op.first_tx_hash # {} =>
               (pts.response.result = "kNotFound" <=> NamedBatches = {})
        /\ \A B \in NamedBatches :
               /\ pts.response.result = "value"
               /\ pts.op.page_size >= Len(B) =>
                      SubSeq(pts.response.transactions, 1, Len(B)) = B
               /\ pts.op.page_size < Len(B) =>
                      /\ pts.response.transactions = <<>>
                      /\ pts.response.next_batch_info =
                             {[first_tx_hash |-> B[1].hash, batch_size |-> Len(B)]}

\* QueryingWrongBatch: bob has a pending batch and names the first
\* transaction of a batch that is stored for alice alone
C26_Witness ==
    /\ Queried
    /\ pts.op.creator = "bob@iroha"
    /\ pts.op.first_tx_hash = {"a3"}
    /\ pts.storage_["bob@iroha"].batches # <<>>
    /\ \E B \in StoredBatches : firstHash(B) = "a3"
    /\ pts.response.result = "kNotFound"

\* the hashes of the transactions of a batch
hashesOf(batch) == {batch[i].hash : i \in 1..Len(batch)}

\* the queries a client can make
Queries ==
    {[creator |-> c, page_size |-> n, first_tx_hash |-> f] :
        c \in PendingAccounts, n \in PageSizes,
        f \in {{}} \cup {{h} : h \in StartHashes}}

\* what the storage answers to a query
Answer(storage, q) ==
    getPendingTransactions(storage, q.creator, q.page_size, q.first_tx_hash)

\* everything the account has pending, asked for with the largest page
AllPending(storage, account_id) ==
    getPendingTransactions(storage, account_id, MaxPageSize, {})

\* C28: after removeBatch(B) no query of a creator of B returns a
\* transaction of B and all_transactions_size no longer counts B, also when
\* the B passed carries more signatures than the stored copy; the other
\* batches stay retrievable and keep their positions.
C28_RemovedBatchIsGone ==
    [][pts'.op.type = "removeBatch" =>
         LET B == pts'.op.batch
         IN /\ \A q \in Queries :
                 \A j \in 1..Len(Answer(pts'.storage_, q).transactions) :
                     Answer(pts'.storage_, q).transactions[j].hash \notin hashesOf(B)
            /\ \A a \in PendingAccounts :
                 /\ AllPending(pts'.storage_, a).all_transactions_size =
                        AllPending(pts.storage_, a).all_transactions_size
                            - (IF a \in pts'.op.held_by THEN Len(B) ELSE 0)
                 /\ AllPending(pts'.storage_, a).transactions =
                        SelectSeq(AllPending(pts.storage_, a).transactions,
                                  LAMBDA tx : tx.hash \notin hashesOf(B))
                 /\ AllPending(pts'.storage_, a).next_batch_info = {}
    ]_vars

\* PreparedBatch with something left: the batch of alice and bob was stored
\* with fewer signatures than the removed one carries, and alice keeps her
\* other two batches
C28_Witness ==
    /\ pts.op.type = "removeBatch"
    /\ pts.op.batch = addSignatures(twoTransactionsBatch(1), 3)
    /\ pts.op.held_by = {"alice@iroha", "bob@iroha"}
    /\ Len(pts.storage_["alice@iroha"].batches) = 2
    /\ pts.storage_["alice@iroha"].all_transactions_quantity = 3
    /\ pts.storage_["bob@iroha"].batches # <<>>

\* the positions of the batch of an MST state that replaces a stored batch
Updating(state, stored) ==
    {k \in 1..Len(state) : batchHashes(state[k]) = batchHashes(stored)}

\* the positions of the batches of an MST state that are new to the account
Arriving(state, batches, account_id) ==
    {k \in 1..Len(state) :
        /\ account_id \in batchCreators(state[k])
        /\ \A i \in 1..Len(batches) :
               batchHashes(batches[i]) # batchHashes(state[k])}

\* C29: updatedBatchesHandler is an upsert keyed by the identity of the
\* batch: a batch already stored (same transactions, more signatures) is
\* replaced where it stands, the number of pending transactions does not
\* grow and the transactions returned carry the new signatures; batches not
\* stored yet are added behind, and nothing is removed.
C29_Upsert ==
    [][pts'.op.type = "updatedBatchesHandler" =>
         \A a \in PendingAccounts :
             LET old == pts.storage_[a].batches
                 new == pts'.storage_[a].batches
                 state == pts'.op.state
             IN /\ Len(new) = Len(old) + Cardinality(Arriving(state, old, a))
                /\ \A i \in 1..Len(old) :
                     /\ Updating(state, old[i]) = {} => new[i] = old[i]
                     /\ \A k \in Updating(state, old[i]) : new[i] = state[k]
                /\ \A k \in Arriving(state, old, a) :
                     \E i \in (Len(old) + 1)..Len(new) : new[i] = state[k]
                /\ AllPending(pts'.storage_, a).transactions = concatBatches(new)
                /\ AllPending(pts'.storage_, a).all_transactions_size =
                       Len(concatBatches(new))
                /\ Arriving(state, old, a) = {} =>
                       AllPending(pts'.storage_, a).all_transactions_size =
                           AllPending(pts.storage_, a).all_transactions_size
    ]_vars

\* SignaturesUpdate next to another batch: the single batch of alice stands
\* first with its second signature, the batch that came after it is still
\* second, and alice has three transactions pending
C29_Witness ==
    /\ pts.op.type = "updatedBatchesHandler"
    /\ pts.op.state = <<addSignatures(aliceBatch, 2)>>
    /\ pts.storage_["alice@iroha"].batches =
           <<addSignatures(aliceBatch, 2), twoTransactionsBatch(1)>>
    /\ pts.storage_["alice@iroha"].all_transactions_quantity = 3

(***************************************************************************)
(* A client that reads all pending transactions of an account page by      *)
(* page, as QueryAllTheBatches does: the first request has no start hash,  *)
(* every further one starts at the batch the previous response named.      *)
(***************************************************************************)

\* what the client keeps of a page: the transactions so far, and where the
\* next request starts, if the response named a next batch
Paged(pager, response) ==
    [pager EXCEPT
        !.pc = IF response.result = "value" /\ response.next_batch_info # {}
               THEN "paging" ELSE "done",
        !.first_tx_hash = {info.first_tx_hash : info \in response.next_batch_info},
        !.transactions = @ \o response.transactions,
        !.pages = @ + 1]

\* the MST state arrives before the client starts
StoreBeforePaging ==
    /\ pts.pager.pc = "idle"
    /\ DoUpdatedBatches

\* a batch is completed or expires before the client starts
RemoveBeforePaging ==
    /\ pts.pager.pc = "idle"
    /\ DoRemoveBatch

\* first_page = getPendingTransactions(creator, page size, std::nullopt),
\* with a page that holds the largest batch of the creator
FirstPage ==
    /\ pts.pager.pc = "idle"
    /\ \E creator \in PendingAccounts, kPageSize \in PageSizes :
         /\ \A i \in 1..Len(pts.storage_[creator].batches) :
                batchSize(pts.storage_[creator].batches[i]) <= kPageSize
         /\ LET response == getPendingTransactions(pts.storage_, creator, kPageSize, {})
            IN pts' = [pts EXCEPT
                         !.op = [type |-> "getPendingTransactions",
                                 creator |-> creator, page_size |-> kPageSize,
                                 first_tx_hash |-> {}],
                         !.response = response,
                         !.pager = Paged([IdlePager EXCEPT
                                              !.creator = creator,
                                              !.page_size = kPageSize],
                                         response)]
    /\ UNCHANGED pendingRest

\* second_page = getPendingTransactions(creator, page size, first hash of
\* the batch the previous page named)
NextPage ==
    /\ pts.pager.pc = "paging"
    /\ LET response == getPendingTransactions(pts.storage_, pts.pager.creator,
                           pts.pager.page_size, pts.pager.first_tx_hash)
       IN pts' = [pts EXCEPT
                    !.op = [type |-> "getPendingTransactions",
                            creator |-> pts.pager.creator,
                            page_size |-> pts.pager.page_size,
                            first_tx_hash |-> pts.pager.first_tx_hash],
                    !.response = response,
                    !.pager = Paged(pts.pager, response)]
    /\ UNCHANGED pendingRest

NextPaging == StoreBeforePaging \/ RemoveBeforePaging \/ FirstPage \/ NextPage

\* the client goes on asking as long as a next batch is named
SpecPaging == InitPending /\ [][NextPaging]_vars /\ WF_vars(NextPage)

\* the client has all batches of the creator, each once and in the order
\* of the storage, and its last response named no next batch
PagingComplete ==
    /\ pts.pager.pc = "done"
    /\ pts.response.result = "value"
    /\ pts.response.next_batch_info = {}
    /\ pts.pager.transactions =
           concatBatches(pts.storage_[pts.pager.creator].batches)

\* C27: with no update or removal in between, paging from the first page
\* along next_batch_info.first_tx_hash with a page size of at least the
\* largest batch returns every stored batch of the creator exactly once, in
\* insertion order, and ends with a response without next_batch_info.
C27_PagingReturnsAll == (pts.pager.pc # "idle") ~> PagingComplete

\* three batches of alice read in three pages of two
C27_Witness ==
    /\ PagingComplete
    /\ pts.pager.creator = "alice@iroha"
    /\ pts.pager.page_size = 2
    /\ pts.pager.pages = 3
    /\ Len(pts.pager.transactions) = 5

(***************************************************************************)
(* The ordering gate under stop().  Worker threads run propagateBatch and  *)
(* processRoundSwitch; each takes stop_mutex_ shared, looks at             *)
(* stop_requested_ and either returns or calls the ordering service and    *)
(* the network client.  stop() takes stop_mutex_ exclusively and sets      *)
(* stop_requested_.                                                        *)
(***************************************************************************)
MaxGateOps == 2

MaxStops == 2

GateOperations == {"propagateBatch", "processRoundSwitch"}

\* what an operation that goes ahead calls: propagateBatch hands the batch
\* to the network client, processRoundSwitch tells the ordering service the
\* new round and sends the cached transactions through the network client
callsOf(op) ==
    IF op = "propagateBatch" THEN {"network_client_"}
    ELSE {"ordering_service_", "network_client_"}

\* an exclusive lock that does not wait for the shared holders
uniqueLockIgnoresReaders(g) == ~g.writer

\* std::lock_guard<std::shared_timed_mutex>: no holder of either kind
uniqueLockFree(g) == ~g.writer /\ g.readers = {}

\* std::shared_lock<std::shared_timed_mutex>: no exclusive holder
sharedLockFree(g) == ~g.writer

gateRest == <<wsv, last, blocks, ledger, rst, handed, ord, twin, yac, pts, os, rdb, uw>>

\* a thread enters propagateBatch or processRoundSwitch
EnterGate(w) ==
    /\ gate.worker[w].pc = "idle"
    /\ gate.started[w] < MaxGateOps
    /\ \E op \in GateOperations :
         gate' = [gate EXCEPT
                    !.worker[w] = [pc |-> "lock", op |-> op,
                                   after_stop |-> gate.stops > 0,
                                   calls |-> {}],
                    !.started[w] = @ + 1]
    /\ UNCHANGED gateRest

\* std::shared_lock stop_lock(stop_mutex_)
LockShared(w) ==
    /\ gate.worker[w].pc = "lock"
    /\ sharedLockFree(gate)
    /\ gate' = [gate EXCEPT !.readers = @ \cup {w},
                            !.worker[w].pc = "check"]
    /\ UNCHANGED gateRest

\* if (stop_requested_) return; otherwise the calls of the operation
CheckAndCall(w) ==
    /\ gate.worker[w].pc = "check"
    /\ gate' = [gate EXCEPT
                  !.worker[w].pc = IF gate.stop_requested_ THEN "unlock"
                                   ELSE "call"]
    /\ UNCHANGED gateRest

\* the operation calls the ordering service and the network client
CallOut(w) ==
    /\ gate.worker[w].pc = "call"
    /\ gate' = [gate EXCEPT !.worker[w].calls = callsOf(gate.worker[w].op),
                            !.worker[w].pc = "unlock"]
    /\ UNCHANGED gateRest

\* the shared lock is released when the operation returns
LeaveGate(w) ==
    /\ gate.worker[w].pc = "unlock"
    /\ gate' = [gate EXCEPT !.readers = @ \ {w},
                            !.worker[w].pc = "idle"]
    /\ UNCHANGED gateRest

\* stop() is called
EnterStop ==
    /\ gate.stopper = "idle"
    /\ gate.stops < MaxStops
    /\ gate' = [gate EXCEPT !.stopper = "lock"]
    /\ UNCHANGED gateRest

\* std::lock_guard stop_lock(stop_mutex_)
LockUnique ==
    /\ gate.stopper = "lock"
    /\ uniqueLockFree(gate)
    /\ gate' = [gate EXCEPT !.writer = TRUE, !.stopper = "set"]
    /\ UNCHANGED gateRest

\* stop_requested_ = true
SetStopRequested ==
    /\ gate.stopper = "set"
    /\ gate' = [gate EXCEPT !.stop_requested_ = TRUE, !.stopper = "unlock"]
    /\ UNCHANGED gateRest

\* stop() returns and releases the lock
LeaveStop ==
    /\ gate.stopper = "unlock"
    /\ gate' = [gate EXCEPT !.writer = FALSE, !.stopper = "idle",
                            !.stops = @ + 1]
    /\ UNCHANGED gateRest

NextGate ==
    \/ \E w \in GateWorkers : EnterGate(w)
    \/ \E w \in GateWorkers : LockShared(w)
    \/ \E w \in GateWorkers : CheckAndCall(w)
    \/ \E w \in GateWorkers : CallOut(w)
    \/ \E w \in GateWorkers : LeaveGate(w)
    \/ EnterStop
    \/ LockUnique
    \/ SetStopRequested
    \/ LeaveStop

SpecGate == InitPending /\ [][NextGate]_vars

\* the threads that are past the stop check and have not returned yet
InFlight == {w \in GateWorkers : gate.worker[w].pc \in {"check", "call", "unlock"}}

\* C30: once stop() has returned, an operation of the gate that starts
\* later calls neither the ordering service nor the network client and
\* returns normally; stop() does not return while an operation is in
\* flight, so no call at all is made after it; a second stop() leaves the
\* stop flag and the operations as they are.
C30_StopIsFinal ==
    [][/\ gate.stops > 0 =>
              \A w \in GateWorkers : gate'.worker[w].calls \subseteq gate.worker[w].calls
       /\ \A w \in GateWorkers :
              (gate.worker[w].after_stop /\ gate.worker[w].pc = "check") =>
                  (gate'.worker[w].pc # "check" =>
                       gate'.worker[w].pc = "unlock" /\ gate'.worker[w].calls = {})
       /\ gate'.stops > gate.stops => InFlight = {}
       /\ gate.stops > 0 =>
              /\ gate.stop_requested_
              /\ gate'.stop_requested_
              /\ gate'.stopper # gate.stopper => gate'.worker = gate.worker
    ]_vars

\* stop() has returned twice; one thread made its calls before the first
\* stop and came back later to be turned away, the other was turned away
\* as well
C30_Witness ==
    /\ gate.stops = 2
    /\ gate.worker["w1"].after_stop
    /\ gate.worker["w1"].op = "processRoundSwitch"
    /\ gate.worker["w1"].pc = "idle"
    /\ gate.worker["w1"].calls = {}
    /\ gate.started["w1"] = 2
    /\ gate.worker["w2"].after_stop
    /\ gate.worker["w2"].pc = "idle"

(***************************************************************************)
(* The on-demand ordering service: the map of the proposals it keeps.      *)
(* onRequestProposal answers from proposal_map_ or packs, stores and       *)
(* returns a new proposal for the round; onCollaborationOutcome makes the  *)
(* round the current one and prunes the map down to number_of_proposals_   *)
(* rounds.                                                                 *)
(***************************************************************************)
number_of_proposals == 3

MaxServiceRound == 2

\* consensus::Round{block_round, reject_round}
ServiceRounds == [block_round : 1..MaxServiceRound, reject_round : 0..1]

\* the rounds proposal_map_ has an entry for
StoredRounds(proposal_map) == {e.round : e \in proposal_map}

\* a pruning that keeps the oldest rounds
tryEraseNewest(proposal_map, current_round) ==
    {e \in proposal_map :
        Cardinality({o \in proposal_map : RoundLess(o.round, e.round)})
            < number_of_proposals}

\* tryErase: the number_of_proposals_ most recent rounds stay, older ones go
tryErase(proposal_map, current_round) ==
    {e \in proposal_map :
        Cardinality({o \in proposal_map : RoundLess(e.round, o.round)})
            < number_of_proposals}

serviceRest == <<wsv, last, blocks, ledger, rst, handed, ord, twin, yac, pts, gate, rdb, uw>>

\* onRequestProposal(round): the stored proposal, or a new one (boost::none
\* when the batches cache is empty) that is stored under the round
OnRequestProposal ==
    \E round \in ServiceRounds, packed \in {{}, {"proposal"}} :
        /\ os' = [os EXCEPT
                    !.proposal_map_ =
                        IF round \in StoredRounds(@) THEN @
                        ELSE @ \cup {[round |-> round, proposal |-> packed]},
                    !.op = [type |-> "onRequestProposal", round |-> round,
                            dropped |-> {}]]
        /\ UNCHANGED serviceRest

\* onCollaborationOutcome(round): current_round_ = round; tryErase(round)
OnCollaborationOutcome ==
    \E round \in ServiceRounds :
        /\ os' = [os EXCEPT
                    !.current_round_ = round,
                    !.proposal_map_ = tryErase(@, round),
                    !.erased = @ \cup (StoredRounds(os.proposal_map_)
                                  \ StoredRounds(tryErase(os.proposal_map_, round))),
                    !.op = [type |-> "onCollaborationOutcome", round |-> round,
                            dropped |-> StoredRounds(os.proposal_map_)
                                  \ StoredRounds(tryErase(os.proposal_map_, round))]]
        /\ UNCHANGED serviceRest

NextService == OnRequestProposal \/ OnCollaborationOutcome

SpecService == InitPending /\ [][NextService]_vars

PollOn ==
    /\ rst.pc = "wait"
    /\ rst.polls = MaxPolls
    /\ rst' = [rst EXCEPT
                 !.pc = IF probedHeight > rst.last_block_in_storage
                        THEN "pass" ELSE "wait",
                 !.last_block_in_storage =
                        IF probedHeight > rst.last_block_in_storage
                        THEN probedHeight ELSE @]
    /\ UNCHANGED <<wsv, last, blocks, ledger, handed, ord, twin, yac, pts, gate, os, rdb, uw>>

\* the operator wants the running restorer to stop; restoreWsv(storage,
\* wait_for_new_blocks) has no parameter or member that could tell it
WantStop ==
    /\ rst.pc \in {"pass", "wait"}
    /\ ~rst.stop_wanted
    /\ rst' = [rst EXCEPT !.stop_wanted = TRUE]
    /\ UNCHANGED <<wsv, last, blocks, ledger, handed, ord, twin, yac, pts, gate, os, rdb, uw>>

NextRestoreLoop ==
    StartRestore \/ RestorePass \/ Poll \/ PollOn \/ AppendBlock
        \/ FinishWrite \/ WantStop

\* the thread of restoreWsv keeps running: passes and sleeps are taken
SpecRestoreLoop ==
    /\ InitRestore
    /\ [][NextRestoreLoop]_vars
    /\ WF_vars(RestorePass)
    /\ WF_vars(Poll \/ PollOn)

\* C32: in wait-for-new-blocks mode restoreWsv goes on polling after every
\* successful pass and returns once it is told to stop, or when a pass
\* fails; without the mode it makes exactly one pass and returns the
\* result of that pass.
C32_ReturnsWhenToldToStop ==
    /\ [][PassStep =>
            /\ rst'.passes = rst.passes + 1
            /\ rst'.res = "error" => rst'.pc = "done"
            /\ (rst'.res = "ok" /\ rst.wait_for_new_blocks) => rst'.pc = "wait"
            /\ ~rst.wait_for_new_blocks => (rst'.pc = "done" /\ rst'.passes = 1)
         ]_vars
    /\ (rst.stop_wanted /\ rst.pc # "done") ~> (rst.pc = "done")

\* the running loop and the writer of the block log alone
NextPolling ==
    StartRestore \/ RestorePass \/ Poll \/ PollOn \/ AppendBlock
        \/ FinishWrite

SpecPolling ==
    /\ InitRestore
    /\ [][NextPolling]_vars
    /\ WF_vars(RestorePass)
    /\ WF_vars(Poll \/ PollOn)

\* the block log has n blocks and the newest of them can be read
NewestReadable(n) == Len(blocks) = n /\ blocks[n].readable

\* a block that can be read and that every check of a pass accepts
GoodBlock(h) ==
    /\ blocks[h].readable
    /\ blocks[h].height = h
    /\ blocks[h].proto_ok
    /\ blocks[h].interface_ok

\* the block log has n blocks, the newest included all readable and valid
LogSettled(n) == Len(blocks) = n /\ \A h \in 1..n : GoodBlock(h)

\* every block from the height the WSV had at the start up to n has been
\* handed to the mutable storage and the WSV stands at n
AppliedUpTo(n) ==
    /\ wsvLedgerHeight = n
    /\ rst.last_block_in_storage = n
    /\ \A h \in (rst.wsv_height_at_start + 1)..n : h \in HandedHeights

DelegationCommands ==
    << [type |-> "CreateRole", role_name |-> "r",
        role_permissions |-> {"kReceive", "kTransferMyAssets"}],
       [type |-> "DetachRole", account_id |-> UserU, role_name |-> "user"],
       [type |-> "AppendRole", account_id |-> UserU, role_name |-> "r"],
       [type |-> "CreateAccount", account_name |-> "v", domain_id |-> "e",
        pubkey |-> "k2"],
       [type |-> "DetachRole", account_id |-> UserV, role_name |-> "user"],
       [type |-> "AppendRole", account_id |-> UserV, role_name |-> "r"] >>

Holders == {UserU, UserV}

InitDelegation ==
    /\ wsv = ReplayBy(Replay(GenesisWsv, DelegationCommands),
                      << [type |-> "AddAssetQuantity", asset_id |-> Coin,
                          amount |-> Amount(2, 1)] >>, UserU)
    /\ last = NoLast
    /\ InitIdle

DoGrantTransfer ==
    \E t \in Holders, a \in Holders :
        LET cmd == [type |-> "GrantPermission", account_id |-> t,
                    permission_name |-> "kTransferMyAssets"]
            result == execute(wsv, cmd, a, TRUE)
        IN /\ wsv' = Commit(wsv, result)
           /\ last' = Executed(cmd, a, TRUE, result)
           /\ UNCHANGED otherVars

DoRevokeTransfer ==
    \E t \in Holders, a \in Holders :
        LET cmd == [type |-> "RevokePermission", account_id |-> t,
                    permission_name |-> "kTransferMyAssets"]
            result == execute(wsv, cmd, a, TRUE)
        IN /\ wsv' = Commit(wsv, result)
           /\ last' = Executed(cmd, a, TRUE, result)
           /\ UNCHANGED otherVars

DoTransferFor ==
    \E src \in Holders, dst \in Holders, a \in Holders :
        LET cmd == [type |-> "TransferAsset", src_account_id |-> src,
                    dest_account_id |-> dst, asset_id |-> Coin,
                    amount |-> Amount(1, 1), description_size |-> 0]
            result == execute(wsv, cmd, a, TRUE)
        IN /\ wsv' = Commit(wsv, result)
           /\ last' = Executed(cmd, a, TRUE, result)
           /\ UNCHANGED otherVars

NextDelegation == DoGrantTransfer \/ DoRevokeTransfer \/ DoTransferFor

SpecDelegation == InitDelegation /\ [][NextDelegation]_vars

\* the grantable permissions that grantor has granted to grantee: the record
\* GrantPermission writes when grantor is the creator and grantee the
\* command's account
GrantedBy(db, grantor, grantee) == GrantedSet(db, grantee, grantor)

\* C34: a validated TransferAsset whose creator is not the source and does
\* not hold the role permission kTransfer succeeds only when the source has
\* granted kTransferMyAssets to the creator.
C34_TransferNeedsGrantBySource ==
    [][(/\ last'.cmd.type = "TransferAsset"
        /\ last'.validate
        /\ last'.code = "OK"
        /\ last'.creator # last'.cmd.src_account_id
        /\ ~IsSet(accountPermissions(wsv, last'.creator), "kTransfer"))
       => "kTransferMyAssets"
              \in GrantedBy(wsv, last'.cmd.src_account_id, last'.creator)
      ]_vars

(***************************************************************************)
(* The committed block as the ordering service sees it: the service's      *)
(* last call is onTxsCommitted with the hashes processCommittedBlock       *)
(* collected from the block.                                               *)
(***************************************************************************)
CommittedBlocks ==
    [prev_hash : OrdHashes, hash : OrdHashes \ {""},
     transactions : BlockTransactions \cup {{}, {"t2"}},
     rejected_transactions_hashes : BlockRejected \cup {{"t2"}}]

CommitBlock ==
    \E block \in CommittedBlocks :
        /\ ord' = processCommittedBlock(ord, block)
        /\ os' = [os EXCEPT
                    !.op = [type |-> "onTxsCommitted", block |-> block,
                            hashes |-> Val(processCommittedBlock(
                                               ord, block).txs_committed)]]
        /\ UNCHANGED <<wsv, last, blocks, ledger, rst, handed, twin, yac, pts, gate, rdb, uw>>

\* the round switch that the synchronizer's commit event brings
SwitchOnCommit ==
    \E round \in Rounds :
        /\ ord' = processSynchronizationEvent(
                      ord, [round |-> round, sync_outcome |-> "kCommit",
                            ledger_peers |-> <<"p1", "p2", "p3">>])
        /\ UNCHANGED <<wsv, last, blocks, ledger, rst, handed, twin, yac, pts, gate, os, rdb, uw>>

NextCommitted == SwitchOnCommit \/ CommitBlock

SpecCommitted == InitOrdering /\ [][NextCommitted]_vars

\* C38: the set processCommittedBlock passes to onTxsCommitted holds the hash
\* of every transaction of the block and every rejected transaction hash of
\* the block, and nothing else.
C38_CommittedAndRejectedHashes ==
    os.op.type = "onTxsCommitted" =>
        \A h \in TxHashes :
            h \in os.op.hashes <=>
                \/ h \in os.op.block.transactions
                \/ h \in os.op.block.rejected_transactions_hashes

\* a block with a committed and a different rejected transaction was handed
\* over, and both hashes went to the ordering service
C38_Witness ==
    /\ os.op.type = "onTxsCommitted"
    /\ os.op.block.transactions = {"t1"}
    /\ os.op.block.rejected_transactions_hashes = {"t2"}
    /\ os.op.hashes = {"t1", "t2"}
    /\ ord.current_hash = os.op.block.hash

(***************************************************************************)
(* Issuers over the reject rounds of one block round.                      *)
(***************************************************************************)
\* the issuer processSynchronizationEvent selects for a reject round from
\* the hash and the peers the node holds
IssuerAt(node, reject_round) ==
    LET ledger_peers == Val(node.event).ledger_peers
    IN getOsPeer(generatePermutation(node.previous_hash, Len(ledger_peers)),
                 reject_round, ledger_peers)

\* C36: for the peer list of size N and the hashes a node holds at a round
\* switch, the permutation holds each index 0..N-1 exactly once, the issuer
\* selected is the peer at the permuted index of the reject round wrapped
\* by N, the issuers of the N reject rounds from the one switched to are N
\* distinct peers, and the issuer of reject round r + N is that of r.
C36_IssuersRoundRobin ==
    ord.fresh =>
        LET ledger_peers == Val(ord.event).ledger_peers
            N == Len(ledger_peers)
            permutation == generatePermutation(ord.previous_hash, N)
            r == Val(ord.round_switch).next_round.reject_round
        IN /\ DOMAIN permutation = 0..(N - 1)
           /\ \A i \in 0..(N - 1) :
                  Cardinality({k \in 0..(N - 1) : permutation[k] = i}) = 1
           /\ Val(ord.peers).kIssuer = IssuerAt(ord, r)
           /\ Val(ord.peers).kIssuer \in
                  {ledger_peers[i] : i \in 1..N}
           /\ Cardinality({IssuerAt(ord, k) : k \in r..(r + N - 1)}) = N
           /\ {IssuerAt(ord, k) : k \in r..(r + N - 1)} =
                  {ledger_peers[i] : i \in 1..N}
           /\ IssuerAt(ord, r + N) = IssuerAt(ord, r)

\* a reject switched to a reject round beyond the first with three peers
\* whose permutation is not the identity
C36_Witness ==
    /\ ord.fresh
    /\ Val(ord.event).sync_outcome = "kReject"
    /\ Len(Val(ord.event).ledger_peers) = 3
    /\ Val(ord.round_switch).next_round.reject_round >= 2
    /\ generatePermutation(ord.previous_hash, 3) # [i \in 0..2 |-> i]
    /\ Val(ord.peers).kIssuer # Val(ord.peers).kRejectConsumer

(***************************************************************************)
(* Consecutive round switches of one node.  Beside the node, the node as   *)
(* its last round switch left it is kept, so that the peers selected then  *)
(* and the hashes held then can be compared with the next selection.       *)
(***************************************************************************)
SwitchRound ==
    \E round \in Rounds, outcome \in Outcomes, ledger_peers \in PeerLists :
        /\ ord' = processSynchronizationEvent(
                      ord, [round |-> round, sync_outcome |-> outcome,
                            ledger_peers |-> ledger_peers])
        /\ twin' = processSynchronizationEvent(
                       ord, [round |-> round, sync_outcome |-> outcome,
                             ledger_peers |-> ledger_peers])
        /\ UNCHANGED <<wsv, last, blocks, ledger, rst, handed, yac, pts, gate, os, rdb, uw>>

PassBlock ==
    \E prev \in OrdHashes, hash \in OrdHashes \ {""} :
        /\ ord' = processCommittedBlock(
                      ord, [prev_hash |-> prev, hash |-> hash,
                            transactions |-> {"t1"},
                            rejected_transactions_hashes |-> {}])
        /\ UNCHANGED <<wsv, last, blocks, ledger, rst, handed, twin, yac, pts, gate, os, rdb, uw>>

NextSwitches == SwitchRound \/ PassBlock

SpecSwitches == InitOrdering /\ [][NextSwitches]_vars

\* the step is a round switch that follows the last one: its event carries
\* the round switched to before and the same ledger peers
NextSwitchFollows ==
    /\ ord'.fresh
    /\ twin' = ord'
    /\ Has(twin.round_switch)
    /\ Val(ord'.event).round = Val(twin.round_switch).next_round
    /\ Val(ord'.event).ledger_peers = Val(twin.round_switch).ledger_peers

MaxSavepoints == 2
DbKeys == {"k1", "k2"}
DbValues == {"x", "y"}
SavepointNames == {"A", "B"}

\* RocksDbCommon::put on the store of the transaction
dbPut(store, key, value) ==
    {p \in store : p[1] # key} \cup {<<key, value>>}

\* RocksDbCommon::savepoint()
commonSavepoint(db, name) ==
    [db EXCEPT !.savepoints = Append(@, [name |-> name, store |-> db.store])]

\* RocksDbCommon::rollbackToSavepoint()
commonRollbackToSavepoint(db) ==
    [db EXCEPT !.store = db.savepoints[Len(db.savepoints)].store,
               !.savepoints = SubSeq(@, 1, Len(@) - 1)]

\* RocksDbCommon::release()
commonRelease(db) ==
    [db EXCEPT !.savepoints = SubSeq(@, 1, Len(@) - 1)]

dbRest == <<wsv, last, blocks, ledger, rst, handed, ord, twin, yac, pts, gate, os, uw>>

DbPut ==
    \E key \in DbKeys, value \in DbValues :
        /\ rdb' = [rdb EXCEPT !.store = dbPut(@, key, value),
                              !.op = [type |-> "put", name |-> ""]]
        /\ UNCHANGED dbRest

\* RocksDbTransaction::savepoint(std::string const &)
DbSavepoint ==
    \E name \in SavepointNames :
        /\ Len(rdb.savepoints) < MaxSavepoints
        /\ \A i \in 1..Len(rdb.savepoints) : rdb.savepoints[i].name # name
        /\ rdb' = [commonSavepoint(rdb, name) EXCEPT
                     !.op = [type |-> "savepoint", name |-> name]]
        /\ UNCHANGED dbRest

\* RocksDbTransaction::rollbackToSavepoint(std::string const &)
DbRollbackToSavepoint ==
    \E name \in SavepointNames :
        /\ \E i \in 1..Len(rdb.savepoints) : rdb.savepoints[i].name = name
        /\ rdb' = [commonRollbackToSavepoint(rdb) EXCEPT
                     !.op = [type |-> "rollbackToSavepoint", name |-> name]]
        /\ UNCHANGED dbRest

\* RocksDbTransaction::releaseSavepoint(std::string const &)
DbReleaseSavepoint ==
    \E name \in SavepointNames :
        /\ \E i \in 1..Len(rdb.savepoints) : rdb.savepoints[i].name = name
        /\ rdb' = [commonRelease(rdb) EXCEPT
                     !.op = [type |-> "releaseSavepoint", name |-> name]]
        /\ UNCHANGED dbRest

NextDb == DbPut \/ DbSavepoint \/ DbRollbackToSavepoint \/ DbReleaseSavepoint

SpecDb == InitPending /\ [][NextDb]_vars

\* the store as it was when the savepoint of a name was taken
StoreAt(db, name) ==
    LET i == CHOOSE i \in 1..Len(db.savepoints) : db.savepoints[i].name = name
    IN db.savepoints[i].store

\* C37: rollbackToSavepoint(name) leaves the store as it was when
\* savepoint(name) was taken, also when a later savepoint was taken after
\* it, and releaseSavepoint(name) leaves the store as it is.
C37_RollbackToNamedSavepoint ==
    [][/\ rdb'.op.type = "rollbackToSavepoint" =>
              rdb'.store = StoreAt(rdb, rdb'.op.name)
       /\ rdb'.op.type = "releaseSavepoint" => rdb'.store = rdb.store
      ]_vars

(***************************************************************************)
(* UnsignedWrapper<T>: two wrappers built around unsigned objects.  Of the *)
(* object a wrapper holds, the number of its signatures and whether it has *)
(* been moved out are kept; what a moved-from object still answers is      *)
(* unspecified, so the signatures it shows are chosen among none and those *)
(* it had.                                                                 *)
(***************************************************************************)
MaxSignatures == 2
Wrappers == {"a", "b"}

\* explicit UnsignedWrapper(const T &o): object_(o), object_finalized_{false}
NewWrapper == [signatures |-> 0, moved_out |-> FALSE,
               object_finalized_ |-> FALSE]

wrapperRest == <<wsv, last, blocks, ledger, rst, handed, ord, twin, yac, pts, gate, os, rdb>>

\* what is recorded of a call: the wrapper, its flag and whether its object
\* had been moved out when the call was made, and how the call ended
Called(type, w, result) ==
    [type |-> type, on |-> w,
     finalized |-> uw.w[w].object_finalized_,
     moved_out |-> uw.w[w].moved_out,
     signatures |-> uw.w[w].signatures,
     result |-> result]

ConstructWrappers ==
    /\ uw.pc = "idle"
    /\ uw' = [pc |-> "built", w |-> [x \in Wrappers |-> NewWrapper],
              op |-> [type |-> "none"], handed_out |-> [x \in Wrappers |-> 0]]
    /\ UNCHANGED wrapperRest

\* signAndAddSignature(signer)
SignAndAddSignature ==
    \E x \in Wrappers :
        /\ uw.pc = "built"
        /\ IF uw.w[x].object_finalized_
           THEN uw' = [uw EXCEPT
                         !.op = Called("signAndAddSignature", x,
                                       "runtime_error")]
           ELSE /\ uw.w[x].signatures < MaxSignatures
                /\ uw' = [uw EXCEPT
                            !.w[x].signatures = @ + 1,
                            !.op = Called("signAndAddSignature", x,
                                          "returned")]
        /\ UNCHANGED wrapperRest

\* finish()
Finish ==
    \E x \in Wrappers :
        /\ uw.pc = "built"
        /\ IF uw.w[x].signatures = 0
           THEN uw' = [uw EXCEPT
                         !.op = Called("finish", x, "invalid_argument")]
           ELSE IF uw.w[x].object_finalized_
           THEN uw' = [uw EXCEPT
                         !.op = Called("finish", x, "runtime_error")]
           ELSE \E left \in {0, uw.w[x].signatures} :
                    uw' = [uw EXCEPT
                             !.w[x] = [signatures |-> left,
                                       moved_out |-> TRUE,
                                       object_finalized_ |-> TRUE],
                             !.handed_out[x] = @ + 1,
                             !.op = Called("finish", x, "returned")]
        /\ UNCHANGED wrapperRest

\* hash(): object_.hash(), whatever object_finalized_ says
Hash ==
    \E x \in Wrappers :
        /\ uw.pc = "built"
        /\ uw' = [uw EXCEPT !.op = Called("hash", x, "returned")]
        /\ UNCHANGED wrapperRest

\* operator=(UnsignedWrapper<T> &&w)
MoveAssign ==
    /\ uw.pc = "built"
    /\ \E to \in Wrappers :
        \E from \in Wrappers \ {to} :
          \E left \in {0, uw.w[from].signatures} :
            /\ uw' = [uw EXCEPT
                        !.w[to] = [signatures |-> uw.w[from].signatures,
                                   moved_out |-> uw.w[from].moved_out,
                                   object_finalized_ |->
                                       uw.w[from].object_finalized_],
                        !.w[from] = [signatures |-> left,
                                     moved_out |-> TRUE,
                                     object_finalized_ |-> TRUE],
                        !.handed_out[to] = 0,
                        !.op = [type |-> "move", on |-> from,
                                finalized |-> uw.w[from].object_finalized_,
                                moved_out |-> uw.w[from].moved_out,
                                signatures |-> uw.w[from].signatures,
                                result |-> "returned"]]
    /\ UNCHANGED wrapperRest

NextWrappers ==
    ConstructWrappers \/ SignAndAddSignature \/ Finish \/ Hash \/ MoveAssign

SpecWrappers == InitPending /\ [][NextWrappers]_vars

\* C40: a call of signAndAddSignature, finish or hash on a wrapper whose
\* finish() has succeeded or which has been moved from throws; finish()
\* returns the object of a wrapper at most once and never an object without
\* a signature.
C40_FinalizedWrapperThrows ==
    uw.pc = "built" =>
        /\ (/\ uw.op.type \in {"signAndAddSignature", "finish", "hash"}
            /\ uw.op.finalized)
           => uw.op.result # "returned"
        /\ \A x \in Wrappers : uw.handed_out[x] <= 1
        /\ (uw.op.type = "finish" /\ uw.op.result = "returned")
           => uw.op.signatures > 0

====
